---- MODULE Spec2Model ----
(***************************************************************************)
(* Interception planning on a road network (guibar/graphtactics).          *)
(*                                                                         *)
(* The model follows the backend package:                                  *)
(*   road_network.py  - routing from a position on an edge                 *)
(*   escape_model.py  - the LKP-rooted escape tree, candidate nodes, cover *)
(*   planner.py       - the vehicle x node assignment model and its plan   *)
(*   vehicle.py       - vehicles, their routing results, the time matrix   *)
(*                                                                         *)
(* Units.  Edge travel times are whole seconds, as stored on the graph.    *)
(* An edge cursor ec is held in halves (ec2 = 2 * ec, so 0, 1 or 2), hence *)
(* every routed time is a whole number of HALF-seconds; all the time       *)
(* fields of the model (times_to_nodes, time_reached, adv_time_to_dest)    *)
(* are in half-seconds.  int() of a vehicle time truncates to whole        *)
(* seconds and is kept as a number of seconds, as in the time matrix.      *)
(***************************************************************************)
EXTENDS Integers, Sequences, FiniteSets, TLC

VARIABLES
    net,                \* name of the RoadNetwork of the process
    lk_point,           \* the adversary's last known point (as it snaps)
    time_elapsed,       \* seconds since the sighting
    time_margin,        \* Planner.time_margin, seconds
    en_order,           \* iteration order of the set network.escape_nodes
    vehicles_dto,       \* ScenarioDTO.vehicles, the list of the request
    pc,                 \* "request" (payload received), "new" (scenario built),
                        \* "ready" (escape model built) or "failed"
    lk_position,        \* EscapeModel.lk_position
    times_to_nodes,     \* EscapeModel.times_to_nodes (half-seconds)
    paths_to_nodes,     \* EscapeModel.paths_to_nodes
    tree_dict,          \* EscapeModel.tree_dict : osmid -> TreeNode
    candidate_nodes,    \* EscapeModel.candidate_nodes
    candidate_counter,  \* EscapeModel._candidate_node_counter
    vehicles,           \* Planner.vehicles : id -> Vehicle
    assignable_vids,    \* Planner.assignable_vids
    plan,               \* Planner.plan
    calls,              \* number of operations invoked on the escape model so far
    isochrone,          \* PlanGeometry._isochrone, as the positions that span it
    edge_geometry,      \* the "geometry" attribute of the graph's edges (key 0)
    requests,           \* the requests inside get_edge_as_linestring
    seg_tree,           \* a tree of TreeNodes handed to the segment methods
    seg_self,           \* the TreeNode the segment method is called on
    segments,           \* what the segment method returned
    last                \* what the last operation was and how it ended

vars == << net, lk_point, time_elapsed, time_margin, en_order, vehicles_dto, pc,
           lk_position, times_to_nodes, paths_to_nodes, tree_dict,
           candidate_nodes, candidate_counter, vehicles, assignable_vids,
           plan, calls, isochrone, edge_geometry, requests, seg_tree, seg_self,
           segments, last >>

(***************************************************************************)
(* Bounds of the model.                                                    *)
(***************************************************************************)
MaxCalls == 2        \* plan_interception calls on one Planner
MaxVehicles == 2     \* vehicles in a scenario
MaxCoverWrites == 2  \* direct writes of a node's cover (SpecCover)
MaxRequests == 2     \* requests that run side by side (SpecLinestring)
MaxTreeNodes == 4    \* nodes of a tree handed to the segment methods (SpecSegments)

(***************************************************************************)
(* Python's None, for optional integers (parent, candidate id, njoi).      *)
(***************************************************************************)
None == 0 - 1

Min(S) == CHOOSE x \in S : \A y \in S : x <= y
Max(S) == CHOOSE x \in S : \A y \in S : x >= y

RECURSIVE SortedSeq(_)
SortedSeq(S) == IF S = {} THEN << >>
                ELSE << Min(S) >> \o SortedSeq(S \ {Min(S)})

RECURSIVE SumSeq(_)
SumSeq(s) == IF s = << >> THEN 0 ELSE Head(s) + SumSeq(Tail(s))

Range(s) == { s[i] : i \in DOMAIN s }

Permutations_(S) == { s \in [1..Cardinality(S) -> S] : Range(s) = S }

(***************************************************************************)
(* config.py                                                               *)
(***************************************************************************)
SCORE_LAST_EDGE_FACTOR == 80
SCORE_TIME_FACTOR == 480
SCORE_TIME_CONSTANT == 900
DEFAULT_TIME_MARGIN == 30

(***************************************************************************)
(* HighwayRank and the tag lookup of get_edge_hw_as_int: the base type is  *)
(* the tag up to its first underscore; unknown base types rank as          *)
(* UNCLASSIFIED.                                                           *)
(***************************************************************************)
BaseType(tag) ==
    CASE tag = "tertiary_link"  -> "tertiary"
      [] tag = "secondary_link" -> "secondary"
      [] tag = "primary_link"   -> "primary"
      [] tag = "trunk_link"     -> "trunk"
      [] tag = "motorway_link"  -> "motorway"
      [] OTHER                  -> tag

HighwayRank(base) ==
    CASE base = "unclassified" -> 0
      [] base = "residential"  -> 1
      [] base = "tertiary"     -> 2
      [] base = "secondary"    -> 3
      [] base = "primary"      -> 4
      [] base = "trunk"        -> 5
      [] base = "motorway"     -> 6
      [] OTHER                 -> 0

(***************************************************************************)
(* Road networks.  An edge is [u, v, key, travel_time, highway, oneway];   *)
(* a two-way road is a pair of opposite edges whose oneway tag is not      *)
(* "yes".  escape_nodes are the nodes just outside the boundary.           *)
(***************************************************************************)
Edge(u, v, k, tt, hw, ow) ==
    [u |-> u, v |-> v, key |-> k, travel_time |-> tt, highway |-> hw, oneway |-> ow]

Road(u, v, tt, hw) == { Edge(u, v, 0, tt, hw, "no"), Edge(v, u, 0, tt, hw, "no") }

OneWay(u, v, tt, hw) == { Edge(u, v, 0, tt, hw, "yes") }

\* A long rural fork: the two escape roads leave a junction that is more
\* than an hour and a half away from the inner streets; a one-way road
\* enters the area at the escape node 6.
NetFork ==
    [ nodes |-> 1..6,
      escape_nodes |-> {4, 5, 6},
      edges |-> Road(1, 2, 600, "tertiary") \cup Road(2, 3, 6000, "secondary")
                \cup Road(3, 4, 3000, "unclassified") \cup Road(3, 5, 61, "primary")
                \cup OneWay(6, 1, 200, "secondary") ]

\* A small town: a one-way exit, a two-way exit, a service road running
\* parallel to the main street between 2 and 3, a short dead end 1-7.
NetTown ==
    [ nodes |-> 1..7,
      escape_nodes |-> {5, 6},
      edges |-> Road(1, 2, 421, "residential") \cup Road(1, 7, 16, "residential") \cup Road(2, 3, 300, "secondary")
                \cup { Edge(2, 3, 1, 500, "primary", "no") }
                \cup Road(2, 4, 240, "tertiary_link") \cup Road(3, 4, 100, "residential")
                \cup OneWay(3, 5, 180, "primary") \cup Road(4, 6, 200, "trunk") ]

\* A ring: the two ends of the street 1-2 both lead to junction 3; an
\* outer road joins the two escape nodes beyond the boundary.
NetRing ==
    [ nodes |-> 1..5,
      escape_nodes |-> {4, 5},
      edges |-> Road(1, 2, 120, "residential") \cup Road(1, 3, 300, "tertiary")
                \cup Road(2, 3, 300, "tertiary") \cup Road(3, 4, 400, "secondary")
                \cup Road(1, 5, 900, "motorway_link") \cup Road(4, 5, 100, "primary") ]

NetworkNames == { "fork", "town", "ring" }

Network(name) ==
    CASE name = "fork" -> NetFork
      [] name = "town" -> NetTown
      [] name = "ring" -> NetRing

(***************************************************************************)
(* networkx views and lookups.                                             *)
(***************************************************************************)
\* graph.get_edge_data(u, v, 0): the edge of key 0 between u and v, if any
EdgeData0(E, u, v) == { e \in E : e.u = u /\ e.v = v /\ e.key = 0 }

HasEdge0(E, u, v) == EdgeData0(E, u, v) # {}

get_edge_travel_time(name, u, v) ==
    (CHOOSE e \in EdgeData0(Network(name).edges, u, v) : TRUE).travel_time

get_edge_hw_as_int(name, u, v) ==
    HighwayRank(BaseType((CHOOSE e \in EdgeData0(Network(name).edges, u, v) : TRUE).highway))

Successors(E, n) == { e.v : e \in { x \in E : x.u = n } }

\* the weight networkx gives a multigraph pair: the least over parallel edges
Weight(E, u, v) == Min({ e.travel_time : e \in { x \in E : x.u = u /\ x.v = v } })

(***************************************************************************)
(* single_source_dijkstra(G, source, weight="travel_time").  st holds      *)
(* dist (finalised), seen, paths and the fringe, a list of <<d, node>> in  *)
(* push order; the node popped is the least d, earliest pushed.            *)
(***************************************************************************)
PopIndex(fringe) ==
    CHOOSE i \in DOMAIN fringe :
        /\ \A j \in DOMAIN fringe : fringe[i][1] <= fringe[j][1]
        /\ \A j \in 1..(i - 1) : fringe[j][1] > fringe[i][1]

RemoveAt(s, i) == SubSeq(s, 1, i - 1) \o SubSeq(s, i + 1, Len(s))

RECURSIVE Relax(_, _, _, _)
Relax(E, v, nbrs, st) ==
    IF nbrs = << >> THEN st
    ELSE LET u == Head(nbrs)
             vu == st.dist[v] + Weight(E, v, u)
             st2 == IF u \in DOMAIN st.dist THEN st
                    ELSE IF u \notin DOMAIN st.seen \/ vu < st.seen[u]
                         THEN [st EXCEPT !.seen = (u :> vu) @@ @,
                                         !.paths = (u :> Append(st.paths[v], u)) @@ @,
                                         !.fringe = Append(@, << vu, u >>)]
                         ELSE st
         IN Relax(E, v, Tail(nbrs), st2)

RECURSIVE DijkstraLoop(_, _)
DijkstraLoop(E, st) ==
    IF st.fringe = << >> THEN st
    ELSE LET i == PopIndex(st.fringe)
             d == st.fringe[i][1]
             v == st.fringe[i][2]
             rest == RemoveAt(st.fringe, i)
         IN IF v \in DOMAIN st.dist
            THEN DijkstraLoop(E, [st EXCEPT !.fringe = rest])
            ELSE DijkstraLoop(E, Relax(E, v, SortedSeq(Successors(E, v)),
                                       [st EXCEPT !.dist = (v :> d) @@ @, !.fringe = rest]))

single_source_dijkstra(E, source) ==
    LET st == DijkstraLoop(E, [dist |-> << >>, seen |-> (source :> 0),
                               paths |-> (source :> << source >>),
                               fringe |-> << << 0, source >> >>])
    IN [times |-> st.dist, paths |-> st.paths]

(***************************************************************************)
(* Positions and routing from a position (road_network.py).                *)
(*                                                                         *)
(* A geographic point is represented by what snapping makes of it: its     *)
(* nearest edge (u, v) of the full graph and the normalised projection ec  *)
(* on that edge, in halves.                                                *)
(***************************************************************************)
Position(u, v, ec2) == [u |-> u, v |-> v, ec2 |-> ec2]

create_position_from_point(name, point) == Position(point.u, point.v, point.ec2)

\* edge_travel_time * position.ec, in half-seconds
get_time_from_position_to_u(name, position) ==
    get_edge_travel_time(name, position.u, position.v) * position.ec2

\* (variant: the time to v is taken for the time to u)
get_time_from_position_to_v_AsToU(name, position) ==
    get_edge_travel_time(name, position.u, position.v) * position.ec2

\* edge_travel_time * (1 - position.ec), in half-seconds
get_time_from_position_to_v(name, position) ==
    get_edge_travel_time(name, position.u, position.v) * (2 - position.ec2)

\* (variant: the view filters nothing)
filter_edge_out_of_escape_nodes_None(name) == Network(name).edges

\* subgraph_view(graph, filter_edge = u not in escape_nodes)
filter_edge_out_of_escape_nodes(name) ==
    { e \in Network(name).edges : e.u \notin Network(name).escape_nodes }

\* CASE 1, one-way edge: the times from v, offset by the time to v
RouteOneWay(position, from_v, time_to_v, elapsed) ==
    [raised |-> FALSE, position |-> position,
     times |-> [n \in DOMAIN from_v.times |-> 2 * from_v.times[n] + time_to_v - 2 * elapsed],
     paths |-> from_v.paths]

\* (variant: the merge keeps the path via u whenever u reaches the node)
RouteTwoWay_PathsViaU(position, from_u, from_v, time_to_u, time_to_v, elapsed) ==
    LET all_reachable == DOMAIN from_u.times \cup DOMAIN from_v.times
        via_u_less(n) ==
            /\ n \in DOMAIN from_u.times
            /\ \/ n \notin DOMAIN from_v.times
               \/ 2 * from_u.times[n] + time_to_u < 2 * from_v.times[n] + time_to_v
    IN [raised |-> FALSE, position |-> position,
        times |-> [n \in all_reachable |->
                     (IF via_u_less(n) THEN 2 * from_u.times[n] + time_to_u
                      ELSE 2 * from_v.times[n] + time_to_v) - 2 * elapsed],
        paths |-> [n \in all_reachable |->
                     IF n \in DOMAIN from_u.times THEN from_u.paths[n] ELSE from_v.paths[n]]]

\* CASE 2, bidirectional edge: the merge of the searches from u and from v
RouteTwoWay(position, from_u, from_v, time_to_u, time_to_v, elapsed) ==
    LET all_reachable == DOMAIN from_u.times \cup DOMAIN from_v.times
        \* time_via_u < time_via_v, an unreached node counting as inf
        via_u_less(n) ==
            /\ n \in DOMAIN from_u.times
            /\ \/ n \notin DOMAIN from_v.times
               \/ 2 * from_u.times[n] + time_to_u < 2 * from_v.times[n] + time_to_v
    IN [raised |-> FALSE, position |-> position,
        times |-> [n \in all_reachable |->
                     (IF via_u_less(n) THEN 2 * from_u.times[n] + time_to_u
                      ELSE 2 * from_v.times[n] + time_to_v) - 2 * elapsed],
        paths |-> [n \in all_reachable |->
                     IF via_u_less(n) THEN from_u.paths[n] ELSE from_v.paths[n]]]

\* the routing once the graph view G and the snapped position are known
RouteFromPosition(name, G, position, elapsed) ==
    IF ~HasEdge0(G, position.u, position.v)
    THEN [raised |-> TRUE, position |-> position, times |-> << >>, paths |-> << >>]
    ELSE IF (CHOOSE e \in EdgeData0(G, position.u, position.v) : TRUE).oneway = "yes"
    THEN RouteOneWay(position, single_source_dijkstra(G, position.v),
                     get_time_from_position_to_v(name, position), elapsed)
    ELSE RouteTwoWay(position,
                     \* avoid_v_graph: without the edge (u, v)
                     single_source_dijkstra(
                         { e \in G : ~(e.u = position.u /\ e.v = position.v) }, position.u),
                     \* avoid_u_graph: without the reverse edge (v, u)
                     single_source_dijkstra(
                         { e \in G : ~(e.u = position.v /\ e.v = position.u) }, position.v),
                     get_time_from_position_to_u(name, position),
                     get_time_from_position_to_v(name, position), elapsed)

\* Raises ValueError when the snapped edge is not in the graph view.
\* elapsed is in seconds; the times returned are in half-seconds.
get_times_and_paths_from_position(name, point, elapsed, ens_as_sink) ==
    RouteFromPosition(name,
                      IF ens_as_sink THEN filter_edge_out_of_escape_nodes(name)
                      ELSE Network(name).edges,
                      create_position_from_point(name, point), elapsed)

(***************************************************************************)
(* The time term of the score, int(exp(-t / SCORE_TIME_CONSTANT) *         *)
(* SCORE_TIME_FACTOR), for t > 0 given in half-seconds.  TimeTermStep[k]   *)
(* is the last half-second at which the term is still at least k, so the   *)
(* term is the number of steps not yet passed.                             *)
(***************************************************************************)
TimeTermStep == <<
      11112, 9865, 9135, 8617, 8215, 7887, 7610, 7369, 7157, 6968, 6796, 6639,
      6495, 6362, 6238, 6122, 6013, 5910, 5812, 5720, 5632, 5548, 5468, 5392,
      5318, 5248, 5180, 5114, 5051, 4990, 4931, 4874, 4819, 4765, 4713, 4662,
      4613, 4565, 4518, 4472, 4428, 4385, 4342, 4301, 4260, 4221, 4182, 4144,
      4107, 4071, 4035, 4000, 3966, 3932, 3899, 3867, 3835, 3804, 3773, 3742,
      3713, 3683, 3655, 3626, 3598, 3571, 3544, 3517, 3491, 3465, 3439, 3414,
      3389, 3365, 3341, 3317, 3293, 3270, 3247, 3225, 3202, 3180, 3158, 3137,
      3116, 3094, 3074, 3053, 3033, 3013, 2993, 2973, 2954, 2934, 2915, 2896,
      2878, 2859, 2841, 2823, 2805, 2787, 2770, 2752, 2735, 2718, 2701, 2684,
      2668, 2651, 2635, 2619, 2603, 2587, 2571, 2556, 2540, 2525, 2510, 2495,
      2480, 2465, 2450, 2436, 2421, 2407, 2393, 2379, 2365, 2351, 2337, 2323,
      2310, 2296, 2283, 2270, 2256, 2243, 2230, 2217, 2205, 2192, 2179, 2167,
      2154, 2142, 2130, 2117, 2105, 2093, 2081, 2069, 2058, 2046, 2034, 2023,
      2011, 2000, 1988, 1977, 1966, 1955, 1944, 1933, 1922, 1911, 1900, 1889,
      1878, 1868, 1857, 1847, 1836, 1826, 1816, 1805, 1795, 1785, 1775, 1765,
      1755, 1745, 1735, 1725, 1716, 1706, 1696, 1687, 1677, 1668, 1658, 1649,
      1639, 1630, 1621, 1612, 1603, 1593, 1584, 1575, 1566, 1557, 1549, 1540,
      1531, 1522, 1513, 1505, 1496, 1488, 1479, 1470, 1462, 1454, 1445, 1437,
      1428, 1420, 1412, 1404, 1396, 1387, 1379, 1371, 1363, 1355, 1347, 1339,
      1332, 1324, 1316, 1308, 1300, 1293, 1285, 1277, 1270, 1262, 1255, 1247,
      1240, 1232, 1225, 1217, 1210, 1203, 1195, 1188, 1181, 1174, 1166, 1159,
      1152, 1145, 1138, 1131, 1124, 1117, 1110, 1103, 1096, 1089, 1082, 1076,
      1069, 1062, 1055, 1049, 1042, 1035, 1029, 1022, 1015, 1009, 1002, 996,
      989, 983, 976, 970, 963, 957, 951, 944, 938, 932, 925, 919,
      913, 907, 900, 894, 888, 882, 876, 870, 864, 858, 852, 846,
      840, 834, 828, 822, 816, 810, 804, 798, 792, 786, 781, 775,
      769, 763, 758, 752, 746, 741, 735, 729, 724, 718, 713, 707,
      701, 696, 690, 685, 679, 674, 669, 663, 658, 652, 647, 642,
      636, 631, 626, 620, 615, 610, 604, 599, 594, 589, 584, 578,
      573, 568, 563, 558, 553, 548, 543, 537, 532, 527, 522, 517,
      512, 507, 502, 497, 492, 488, 483, 478, 473, 468, 463, 458,
      453, 449, 444, 439, 434, 430, 425, 420, 415, 411, 406, 401,
      396, 392, 387, 383, 378, 373, 369, 364, 359, 355, 350, 346,
      341, 337, 332, 328, 323, 319, 314, 310, 305, 301, 296, 292,
      288, 283, 279, 274, 270, 266, 261, 257, 253, 248, 244, 240,
      236, 231, 227, 223, 219, 214, 210, 206, 202, 198, 193, 189,
      185, 181, 177, 173, 168, 164, 160, 156, 152, 148, 144, 140,
      136, 132, 128, 124, 120, 116, 112, 108, 104, 100, 96, 92,
      88, 84, 80, 76, 72, 68, 64, 61, 57, 53, 49, 45,
      41, 37, 34, 30, 26, 22, 18, 15, 11, 7, 3 >>

TimeTerm(t) == Cardinality({ k \in DOMAIN TimeTermStep : t <= TimeTermStep[k] })

(***************************************************************************)
(* TreeNode (tree_node.py) and the escape model (escape_model.py).  The    *)
(* parent is held as the parent's osmid; children derive from it.          *)
(***************************************************************************)
\* (variant: the node is created without its parent link)
TreeNode_Orphan(osmid, parent, time_reached, score, is_njoi, candidate_id) ==
    [osmid |-> osmid, parent |-> None, time_reached |-> time_reached,
     score |-> score, is_njoi |-> is_njoi, cover |-> "UNCOVERED",
     is_control_node |-> FALSE, id |-> candidate_id]

TreeNode(osmid, parent, time_reached, score, is_njoi, candidate_id) ==
    [osmid |-> osmid, parent |-> parent, time_reached |-> time_reached,
     score |-> score, is_njoi |-> is_njoi, cover |-> "UNCOVERED",
     is_control_node |-> FALSE, id |-> candidate_id]

Children(td, n) == { c \in DOMAIN td : td[c].parent = n }

IsLeaf(td, n) == Children(td, n) = {}

RECURSIVE PathFromRoot(_, _)
PathFromRoot(td, n) ==
    IF td[n].parent = None \/ td[n].parent \notin DOMAIN td THEN << n >>
    ELSE Append(PathFromRoot(td, td[n].parent), n)

Ancestors(td, n) == Range(PathFromRoot(td, n)) \ {n}

\* PreOrderIter(node): the node and its descendants
Subtree(td, n) == { m \in DOMAIN td : n \in Range(PathFromRoot(td, m)) }

Leaves(td, n) == { m \in Subtree(td, n) : IsLeaf(td, m) }

\* (variant: every node with a positive time is flagged as NJOI)
RECURSIVE WalkPath_AllNjoi(_, _, _, _, _, _)
WalkPath_AllNjoi(times, en_score_value, seq, i, njoi, st) ==
    IF i > Len(seq) THEN st
    ELSE LET prev_osmid == seq[i - 1]
             curr_osmid == seq[i]
             time_to_curr_osmid == times[curr_osmid]
             score == IF time_to_curr_osmid > 0
                      THEN en_score_value + TimeTerm(time_to_curr_osmid)
                      ELSE 0
             \* "if not njoi": njoi is None (or 0)
             njoi2 == IF time_to_curr_osmid > 0 /\ (njoi = None \/ njoi = 0)
                      THEN curr_osmid ELSE njoi
             st2 == IF curr_osmid \notin DOMAIN st.tree_dict
                    THEN [tree_dict |->
                              (curr_osmid :> TreeNode(curr_osmid, prev_osmid,
                                                      time_to_curr_osmid, score,
                                                      time_to_curr_osmid > 0,
                                                      IF score > 0 THEN st.counter ELSE None))
                              @@ st.tree_dict,
                          counter |-> IF score > 0 THEN st.counter + 1 ELSE st.counter]
                    ELSE [st EXCEPT !.tree_dict[curr_osmid].score = @ + score]
         IN WalkPath_AllNjoi(times, en_score_value, seq, i + 1, njoi2, st2)

\* (variant: a node found again keeps the score of its first path)
RECURSIVE WalkPath_NoAccumulate(_, _, _, _, _, _)
WalkPath_NoAccumulate(times, en_score_value, seq, i, njoi, st) ==
    IF i > Len(seq) THEN st
    ELSE LET prev_osmid == seq[i - 1]
             curr_osmid == seq[i]
             time_to_curr_osmid == times[curr_osmid]
             score == IF time_to_curr_osmid > 0
                      THEN en_score_value + TimeTerm(time_to_curr_osmid)
                      ELSE 0
             \* "if not njoi": njoi is None (or 0)
             njoi2 == IF time_to_curr_osmid > 0 /\ (njoi = None \/ njoi = 0)
                      THEN curr_osmid ELSE njoi
             st2 == IF curr_osmid \notin DOMAIN st.tree_dict
                    THEN [tree_dict |->
                              (curr_osmid :> TreeNode(curr_osmid, prev_osmid,
                                                      time_to_curr_osmid, score,
                                                      njoi2 = curr_osmid,
                                                      IF score > 0 THEN st.counter ELSE None))
                              @@ st.tree_dict,
                          counter |-> IF score > 0 THEN st.counter + 1 ELSE st.counter]
                    ELSE st
         IN WalkPath_NoAccumulate(times, en_score_value, seq, i + 1, njoi2, st2)

\* The walk over pairwise([None, 0, *path]) for one escape node; seq is
\* that list, i the index of curr_osmid, st = [tree_dict, counter].
RECURSIVE WalkPath(_, _, _, _, _, _)
WalkPath(times, en_score_value, seq, i, njoi, st) ==
    IF i > Len(seq) THEN st
    ELSE LET prev_osmid == seq[i - 1]
             curr_osmid == seq[i]
             time_to_curr_osmid == times[curr_osmid]
             score == IF time_to_curr_osmid > 0
                      THEN en_score_value + TimeTerm(time_to_curr_osmid)
                      ELSE 0
             \* "if not njoi": njoi is None (or 0)
             njoi2 == IF time_to_curr_osmid > 0 /\ (njoi = None \/ njoi = 0)
                      THEN curr_osmid ELSE njoi
             st2 == IF curr_osmid \notin DOMAIN st.tree_dict
                    THEN [tree_dict |->
                              (curr_osmid :> TreeNode(curr_osmid, prev_osmid,
                                                      time_to_curr_osmid, score,
                                                      njoi2 = curr_osmid,
                                                      IF score > 0 THEN st.counter ELSE None))
                              @@ st.tree_dict,
                          counter |-> IF score > 0 THEN st.counter + 1 ELSE st.counter]
                    ELSE [st EXCEPT !.tree_dict[curr_osmid].score = @ + score]
         IN WalkPath(times, en_score_value, seq, i + 1, njoi2, st2)

\* The loop over network.escape_nodes, taken in the given order.
RECURSIVE BuildLoop(_, _, _, _, _, _)
BuildLoop(name, position, times, paths, order, st) ==
    IF order = << >> THEN st
    ELSE LET escape_node_osmid == Head(order)
         IN IF escape_node_osmid \notin DOMAIN paths
            THEN BuildLoop(name, position, times, paths, Tail(order), st)
            ELSE LET path == paths[escape_node_osmid]
                     en_score_value ==
                         IF Len(path) > 1
                         THEN get_edge_hw_as_int(name, path[Len(path) - 1], path[Len(path)])
                              * SCORE_LAST_EDGE_FACTOR
                         ELSE get_edge_hw_as_int(name, position.u, position.v)
                              * SCORE_LAST_EDGE_FACTOR
                 IN BuildLoop(name, position, times, paths, Tail(order),
                              WalkPath(times, en_score_value, << None, 0 >> \o path, 2, None, st))

CandidateNode(node) ==
    [id |-> node.id, osmid |-> node.osmid, time_reached |-> node.time_reached,
     score |-> node.score]

\* (variant: the list is sorted by decreasing id)
RECURSIVE SortById_Descending(_)
SortById_Descending(S) ==
    IF S = {} THEN << >>
    ELSE LET m == CHOOSE x \in S : \A y \in S : x.id >= y.id
         IN << m >> \o SortById_Descending(S \ {m})

RECURSIVE SortById(_)
SortById(S) ==
    IF S = {} THEN << >>
    ELSE LET m == CHOOSE x \in S : \A y \in S : x.id <= y.id
         IN << m >> \o SortById(S \ {m})

\* set_candidate_nodes: the nodes under the root that carry an id, by id
set_candidate_nodes(td) ==
    SortById({ CandidateNode(td[n]) : n \in { m \in Subtree(td, 0) : td[m].id # None } })

\* The escape model once the tree is built: set_candidate_nodes and the
\* fields.  raised: the KeyError on tree_dict[0] when no escape node has a
\* path, or the failed assertion len(candidate_nodes) == counter.
EscapeModelFields(r, times, st, cands) ==
    [raised |-> (0 \notin DOMAIN st.tree_dict) \/ Len(cands) # st.counter,
     lk_position |-> r.position, times_to_nodes |-> times,
     paths_to_nodes |-> r.paths, tree_dict |-> st.tree_dict,
     candidate_nodes |-> cands, counter |-> st.counter]

EscapeModelTree(r, times, st) ==
    EscapeModelFields(r, times, st,
                      IF 0 \in DOMAIN st.tree_dict THEN set_candidate_nodes(st.tree_dict)
                      ELSE << >>)

\* build_lkp_rooted_tree on the routing result r; times is times_to_nodes
\* with the fake root 0 added
build_lkp_rooted_tree(name, r, times, order) ==
    EscapeModelTree(r, times, BuildLoop(name, r.position, times, r.paths, order,
                                        [tree_dict |-> << >>, counter |-> 0]))

EscapeModelRouted(name, r, elapsed, order) ==
    IF r.raised
    THEN [raised |-> TRUE, lk_position |-> None, times_to_nodes |-> << >>,
          paths_to_nodes |-> << >>, tree_dict |-> << >>,
          candidate_nodes |-> << >>, counter |-> 0]
    ELSE build_lkp_rooted_tree(name, r, (0 :> (0 - 2 * elapsed)) @@ r.times, order)

\* EscapeModel.__init__: build_lkp_rooted_tree then set_candidate_nodes.
\* raised also covers the ValueError of the routing.
EscapeModelInit(name, point, elapsed, order) ==
    EscapeModelRouted(name, get_times_and_paths_from_position(name, point, elapsed, TRUE),
                      elapsed, order)

\* get_paths_as_seq_indices: for every NJOI and every leaf under it, the
\* ids (None included) of the nodes from the NJOI down to the leaf.
get_paths_as_seq_indices(td) ==
    { [i \in 1..Len(p) |-> td[p[i]].id] :
        p \in UNION { { LET full == PathFromRoot(td, leaf)
                            k == CHOOSE j \in DOMAIN full : full[j] = njoi
                        IN SubSeq(full, k, Len(full)) : leaf \in Leaves(td, njoi) }
                      : njoi \in { n \in Subtree(td, 0) : td[n].is_njoi } } }

\* (variant: only the control node itself is marked COVERED)
set_as_control_node_NodeOnly(td, node_osmid) ==
    [n \in DOMAIN td |->
        IF n = node_osmid THEN [td[n] EXCEPT !.is_control_node = TRUE, !.cover = "COVERED"]
        ELSE td[n]]

\* set_as_control_node: the node is a control node, it and all its
\* descendants are COVERED
set_as_control_node(td, node_osmid) ==
    [n \in DOMAIN td |->
        IF n = node_osmid THEN [td[n] EXCEPT !.is_control_node = TRUE, !.cover = "COVERED"]
        ELSE IF n \in Subtree(td, node_osmid) THEN [td[n] EXCEPT !.cover = "COVERED"]
        ELSE td[n]]

\* the cover a node has once the post-order pass of set_cover_status has
\* visited it: a leaf keeps its cover, a non-leaf derives it from its children
RECURSIVE CoverAfter(_, _)
CoverAfter(td, n) ==
    IF IsLeaf(td, n) THEN td[n].cover
    ELSE IF \A c \in Children(td, n) : CoverAfter(td, c) = "COVERED" THEN "COVERED"
    ELSE IF \A c \in Children(td, n) : CoverAfter(td, c) = "UNCOVERED" THEN "UNCOVERED"
    ELSE "MIXED"

\* (variant: each node derives its cover from its children as they stand
\* before the pass)
set_cover_status_PreOrder(td) ==
    [n \in DOMAIN td |->
        IF IsLeaf(td, n) THEN td[n]
        ELSE IF \A c \in Children(td, n) : td[c].cover = "COVERED"
             THEN [td[n] EXCEPT !.cover = "COVERED"]
        ELSE IF \A c \in Children(td, n) : td[c].cover = "UNCOVERED"
             THEN [td[n] EXCEPT !.cover = "UNCOVERED"]
        ELSE [td[n] EXCEPT !.cover = "MIXED"]]

set_cover_status(td) ==
    [n \in DOMAIN td |->
        IF n \in Subtree(td, 0) THEN [td[n] EXCEPT !.cover = CoverAfter(td, n)] ELSE td[n]]

(***************************************************************************)
(* Vehicles (vehicle.py).  point is the vehicle's point as it snaps; dist  *)
(* is the great-circle distance in metres from the LKP to the vehicle's    *)
(* current point and snap_dist the distance to the snapped point, which    *)
(* becomes the vehicle's point once set_travel_times has run.              *)
(***************************************************************************)
Vehicle(id, point, dist, snap_dist) ==
    [id |-> id, point |-> point, dist |-> dist, snap_dist |-> snap_dist,
     position |-> None, status |-> "ASSIGNABLE", times_to_nodes |-> << >>]

Routed(vehicle, r) ==
    [vehicle EXCEPT !.position = r.position, !.times_to_nodes = r.times,
                    !.dist = vehicle.snap_dist]

set_travel_times(name, vehicle) ==
    Routed(vehicle, get_times_and_paths_from_position(name, vehicle.point, 0, FALSE))

\* int(vehicle.times_to_nodes[node]) for every vehicle and node, in whole
\* seconds; KeyError when a node is missing from a vehicle's times
TimeMatrixRaises(vs, vids, osmids) ==
    \E i \in DOMAIN vids : \E j \in DOMAIN osmids :
        osmids[j] \notin DOMAIN vs[vids[i]].times_to_nodes

get_time_matrix(vs, vids, osmids) ==
    [i \in DOMAIN vids |-> [j \in DOMAIN osmids |-> vs[vids[i]].times_to_nodes[osmids[j]] \div 2]]

(***************************************************************************)
(* Planner.plan_interception (planner.py).                                 *)
(***************************************************************************)
\* dist_to_lkp / time_elapsed < MAX_SPEED_M_PER_SECOND (= 80000 / 3600)
TooCloseToLkp(dist, elapsed) == dist * 3600 < 80000 * elapsed

\* 1. the filtering loop, for elapsed > 0 (the division raises on 0)
FilteredVehicles(name, vs, elapsed) ==
    [id \in DOMAIN vs |->
        IF TooCloseToLkp(vs[id].dist, elapsed)
        THEN [vs[id] EXCEPT !.status = "TOO_CLOSE_TO_LKP"]
        ELSE set_travel_times(name, vs[id])]

\* (variant: every vehicle is kept as assignable)
FilteredVids_All(vs, elapsed) == SortedSeq(DOMAIN vs)

FilteredVids(vs, elapsed) ==
    SortedSeq({ id \in DOMAIN vs : ~TooCloseToLkp(vs[id].dist, elapsed) })

EmptyPlan(nb_assignable_vehicles) ==
    [assignments |-> << >>, solution_score |-> 0,
     nb_assignable_vehicles |-> nb_assignable_vehicles]

\* (variant: the time margin is left out)
Reachable_NoMargin(adv_times, times_v_n, margin, v_i, n_j) ==
    adv_times[n_j + 1] - 2 * times_v_n[v_i + 1][n_j + 1] > 0

\* the reachability condition under which x[v_i][n_j] is a variable and
\* not the constant 0 (adv time in half-seconds, the others in seconds)
Reachable(adv_times, times_v_n, margin, v_i, n_j) ==
    adv_times[n_j + 1] - 2 * times_v_n[v_i + 1][n_j + 1] - 2 * margin > 0

\* (variant: constraint 1 gives every vehicle exactly one node)
Constraint1_ExactlyOne(row) == Cardinality(row) = 1

\* (variant: constraint 1 lets a vehicle take two nodes)
Constraint1_AtMostTwo(row) == Cardinality(row) <= 2

\* Constraint 1: a vehicle has at most one node
Constraint1(row) == Cardinality(row) <= 1

\* Constraint 2: a node has at most one vehicle
Constraint2(x, num_vehicles, num_nodes) ==
    \A n_j \in 0..(num_nodes - 1) :
        Cardinality({ v_i \in 0..(num_vehicles - 1) : n_j \in x[v_i] }) <= 1

\* (variant: constraint 3 lets two vehicles onto an escape path)
Constraint3_AtMostTwo(x, num_vehicles, path_lists) ==
    \A path_indices \in path_lists :
        SumSeq([k \in DOMAIN path_indices |->
                  Cardinality({ v_i \in 0..(num_vehicles - 1) : path_indices[k] \in x[v_i] })]) <= 2

\* (variant: constraint 3 is not posted)
Constraint3_Off(x, num_vehicles, path_lists) == TRUE

\* Constraint 3: an escape path has at most one vehicle
Constraint3(x, num_vehicles, path_lists) ==
    \A path_indices \in path_lists :
        SumSeq([k \in DOMAIN path_indices |->
                  Cardinality({ v_i \in 0..(num_vehicles - 1) : path_indices[k] \in x[v_i] })]) <= 1

\* the assignments of the model: x[v_i] is the set of n_j with x[v_i][n_j] = 1
Solutions(adv_times, times_v_n, margin, num_vehicles, num_nodes, path_lists) ==
    { x \in [0..(num_vehicles - 1) ->
               UNION { { row \in SUBSET { n_j \in 0..(num_nodes - 1) :
                                            Reachable(adv_times, times_v_n, margin, v_i, n_j) }
                         : Constraint1(row) } : v_i \in 0..(num_vehicles - 1) }] :
        /\ \A v_i \in 0..(num_vehicles - 1) :
              \A n_j \in x[v_i] : Reachable(adv_times, times_v_n, margin, v_i, n_j)
        /\ Constraint2(x, num_vehicles, num_nodes)
        /\ Constraint3(x, num_vehicles, path_lists) }

ObjectiveValue(x, node_scores) ==
    SumSeq([i \in 1..Cardinality(DOMAIN x) |->
              SumSeq([j \in DOMAIN node_scores |->
                        IF (j - 1) \in x[i - 1] THEN node_scores[j] ELSE 0])])

\* 5. post-processing: the first node of each vehicle's row, in vehicle order
AssignedRows(x) == SortedSeq({ v_i \in DOMAIN x : x[v_i] # {} })

VehicleAssignment(vid, destination_node, time_to_dest, adv_time_to_dest, score) ==
    [vehicle |-> vid, destination_node |-> destination_node,
     time_to_dest |-> time_to_dest, adv_time_to_dest |-> adv_time_to_dest,
     score |-> score]

PlanAssignments(x, vids, cands, times_v_n) ==
    LET rows == AssignedRows(x)
    IN [k \in DOMAIN rows |->
          LET v_i == rows[k]
              n_j == Min(x[v_i])
          IN VehicleAssignment(vids[v_i + 1], cands[n_j + 1].osmid,
                               times_v_n[v_i + 1][n_j + 1],
                               cands[n_j + 1].time_reached, cands[n_j + 1].score)]

\* (variant: a vehicle without a node keeps the status it had)
StatusAfter_KeepStatus(vs, vids, x) ==
    [id \in DOMAIN vs |->
        IF \E v_i \in DOMAIN x : vids[v_i + 1] = id /\ x[v_i] # {}
        THEN [vs[id] EXCEPT !.status = "ASSIGNED"]
        ELSE vs[id]]

StatusAfter(vs, vids, x) ==
    [id \in DOMAIN vs |->
        IF \E v_i \in DOMAIN x : vids[v_i + 1] = id /\ x[v_i] # {}
        THEN [vs[id] EXCEPT !.status = "ASSIGNED"]
        ELSE IF id \in Range(vids) THEN [vs[id] EXCEPT !.status = "UNASSIGNED"]
        ELSE vs[id]]

RECURSIVE MarkControlNodes(_, _)
MarkControlNodes(td, assignments) ==
    IF assignments = << >> THEN td
    ELSE MarkControlNodes(set_as_control_node(td, Head(assignments).destination_node),
                          Tail(assignments))

(***************************************************************************)
(* Scenarios: the inputs of one planning request.                          *)
(***************************************************************************)
\* the points the LKP may snap to: any edge of the graph, at its start,
\* its middle or its end
LkPoints(name) ==
    { Position(e.u, e.v, ec2) : e \in Network(name).edges, ec2 \in 0..2 }

ElapsedChoices == { 0, 300, 900 }

MarginChoices == { 0, DEFAULT_TIME_MARGIN }

\* the vehicles a scenario may hold
VehiclePool(name) ==
    CASE name = "fork" ->
            { Vehicle(1, Position(3, 5, 1), 30000, 30000),
              Vehicle(2, Position(1, 2, 0), 500, 500),
              Vehicle(3, Position(2, 3, 2), 7000, 6000) }
      [] name = "town" ->
            { Vehicle(1, Position(4, 6, 1), 30000, 30000),
              Vehicle(2, Position(3, 5, 2), 25000, 25000),
              Vehicle(3, Position(3, 4, 1), 7000, 6000) }
      [] name = "ring" ->
            { Vehicle(1, Position(3, 4, 1), 30000, 30000),
              Vehicle(2, Position(1, 2, 0), 500, 500),
              Vehicle(3, Position(1, 5, 1), 7000, 6000) }

VehicleDict(S) == [id \in { v.id : v \in S } |-> CHOOSE v \in S : v.id = id]

\* VehicleDTO: the id and the position of a vehicle in the payload
VehicleDTO(v) == [id |-> v.id, point |-> v.point, dist |-> v.dist, snap_dist |-> v.snap_dist]

\* VehicleDTO.to_domain
VehicleDTO_to_domain(dto) == Vehicle(dto.id, dto.point, dto.dist, dto.snap_dist)

\* {v.id: v.to_domain(network) for v in self.vehicles}: a later entry of
\* the list replaces an earlier one of the same id
RECURSIVE ScenarioDTO_to_domain(_)
ScenarioDTO_to_domain(dtos) ==
    IF dtos = << >> THEN << >>
    ELSE (dtos[Len(dtos)].id :> VehicleDTO_to_domain(dtos[Len(dtos)]))
            @@ ScenarioDTO_to_domain(SubSeq(dtos, 1, Len(dtos) - 1))

\* the payload a scenario's vehicles came from, in the order of their ids
DtoList(vs) == [i \in 1..Cardinality(DOMAIN vs) |-> VehicleDTO(vs[SortedSeq(DOMAIN vs)[i]])]

\* the payloads of a request: up to MaxVehicles entries of the pool, or of
\* a second report of vehicle 1 from where vehicle 2 stands, listed by id
RequestPool(name) ==
    { VehicleDTO(v) : v \in VehiclePool(name) }
        \cup { [VehicleDTO(v) EXCEPT !.id = 1] : v \in { x \in VehiclePool(name) : x.id = 2 } }

RECURSIVE RequestListsOfLen(_, _)
RequestListsOfLen(name, n) ==
    IF n = 0 THEN { << >> }
    ELSE { Append(l, d) : l \in RequestListsOfLen(name, n - 1),
                          d \in RequestPool(name) }

RequestLists(name) ==
    { l \in UNION { RequestListsOfLen(name, n) : n \in 0..MaxVehicles } :
        /\ \A i, j \in DOMAIN l : i < j => (l[i].id <= l[j].id /\ l[i] # l[j]) }

(***************************************************************************)
(* Edge geometry (road_network.py).  A linestring is the sequence of its   *)
(* points; an edge without a "geometry" attribute is absent from the       *)
(* domain of the cache.                                                    *)
(***************************************************************************)
\* graph.nodes[n]["x"], graph.nodes[n]["y"]
NodeXY(name, n) == [x |-> 10 * n, y |-> (n * n) % 7]

\* the pairs (u, v) that have an edge of key 0
Edge0Pairs(name) == { << e.u, e.v >> : e \in { x \in Network(name).edges : x.key = 0 } }

\* the geometries the extract came with: the main roads are drawn with a
\* bend, the other edges carry no geometry
StoredGeometry(name) ==
    [ p \in { q \in Edge0Pairs(name) : get_edge_hw_as_int(name, q[1], q[2]) >= 3 } |->
        << NodeXY(name, p[1]),
           [x |-> NodeXY(name, p[1]).x, y |-> NodeXY(name, p[2]).y],
           NodeXY(name, p[2]) >> ]

StraightLineString_Reversed(name, u, v) == << NodeXY(name, v), NodeXY(name, u) >>

\* LineString([Point(u.x, u.y), Point(v.x, v.y)])
StraightLineString(name, u, v) == << NodeXY(name, u), NodeXY(name, v) >>

Requests == 1..MaxRequests

IdleRequest == [pc |-> "idle", u |-> 0, v |-> 0, linestring |-> << >>,
                synthesized |-> FALSE, result |-> << >>]

\* no request has called get_edge_as_linestring yet
NoLinestringCalls ==
    /\ edge_geometry = StoredGeometry(net)
    /\ requests = [t \in Requests |-> IdleRequest]

(***************************************************************************)
(* TreeNode.non_overlapping_segments and TreeNode.categorize_segments      *)
(* (tree_node.py) on a tree of their own.  The nodes are numbered in the   *)
(* order of their creation, 1 being the root; the children of a node are   *)
(* in that order too.                                                      *)
(***************************************************************************)
CoverStatus == { "UNCOVERED", "MIXED", "COVERED" }

ParentLinks(n) ==
    { p \in [1..n -> {None} \cup 1..(n - 1)] :
        /\ p[1] = None
        /\ \A i \in 2..n : p[i] # None /\ p[i] < i }

\* what a node can carry: a control node is COVERED (set_as_control_node)
NodeLabels ==
    { l \in [cover : CoverStatus, is_control_node : BOOLEAN] :
        l.is_control_node => l.cover = "COVERED" }

\* the trees of n nodes; only a node with children can be MIXED
\* (set_cover_status)
SegTrees(n) ==
    { [parent |-> pl[1],
       cover |-> [i \in 1..n |-> pl[2][i].cover],
       is_control_node |-> [i \in 1..n |-> pl[2][i].is_control_node]] :
        pl \in { q \in ParentLinks(n) \X [1..n -> NodeLabels] :
                   \A i \in 1..n :
                       q[2][i].cover = "MIXED" => \E c \in 1..n : q[1][c] = i } }

\* node.children, in order
SegChildren(t, node) == SortedSeq({ c \in DOMAIN t.parent : t.parent[c] = node })

\* node.ancestors: the proper ancestors up to the root of the whole tree
RECURSIVE SegAncestors(_, _)
SegAncestors(t, node) ==
    IF t.parent[node] = None THEN {}
    ELSE {t.parent[node]} \cup SegAncestors(t, t.parent[node])

\* dfs_and_split(node, current_path) followed by the calls for the children
\* ch[k], ch[k+1], ... that start a new path at node; the value is the list
\* of the paths saved, in the order they are saved
RECURSIVE dfs_and_split(_, _, _)
RECURSIVE dfs_and_split_rest(_, _, _, _)
dfs_and_split(t, node, current_path) ==
    IF SegChildren(t, node) = << >>
    THEN << Append(current_path, node) >>
    ELSE dfs_and_split(t, SegChildren(t, node)[1], Append(current_path, node))
            \o dfs_and_split_rest(t, node, SegChildren(t, node), 2)

\* (variant: a later child starts its path without the branching node)
RECURSIVE dfs_and_split_rest_NoBranchNode(_, _, _, _)
dfs_and_split_rest_NoBranchNode(t, node, ch, k) ==
    IF k > Len(ch) THEN << >>
    ELSE dfs_and_split(t, ch[k], << >>)
            \o dfs_and_split_rest_NoBranchNode(t, node, ch, k + 1)

dfs_and_split_rest(t, node, ch, k) ==
    IF k > Len(ch) THEN << >>
    ELSE dfs_and_split(t, ch[k], << node >>) \o dfs_and_split_rest(t, node, ch, k + 1)

non_overlapping_segments(t, self) == dfs_and_split(t, self, << >>)

\* (variant: every edge leading to a covered node is "before_control")
get_edge_category_NoAfter(t, edge_end_node) ==
    IF t.cover[edge_end_node] # "COVERED" THEN "uncovered" ELSE "before_control"

\* _get_edge_category
get_edge_category(t, edge_end_node) ==
    IF t.cover[edge_end_node] # "COVERED" THEN "uncovered"
    ELSE IF \E a \in SegAncestors(t, edge_end_node) : t.is_control_node[a]
    THEN "after_control"
    ELSE "before_control"

NoCategories == [uncovered |-> << >>, before_control |-> << >>, after_control |-> << >>]

\* result[cat].append(segment)
AppendSegment(result, cat, segment) ==
    [result EXCEPT ![cat] = Append(@, segment)]

\* the loop of _slice_path_by_category from index i on, and the save of the
\* last segment
RECURSIVE SliceLoop(_, _, _, _, _, _)
SliceLoop(t, path, i, current_segment, current_category, result) ==
    IF i > Len(path) THEN AppendSegment(result, current_category, current_segment)
    ELSE IF get_edge_category(t, path[i]) # current_category
    THEN SliceLoop(t, path, i + 1, << path[i - 1], path[i] >>,
                   get_edge_category(t, path[i]),
                   AppendSegment(result, current_category, current_segment))
    ELSE SliceLoop(t, path, i + 1, Append(current_segment, path[i]),
                   current_category, result)

\* _slice_path_by_category; range(1, len(path)) is the indices 2..Len(path)
slice_path_by_category(t, path) ==
    IF Len(path) < 2 THEN NoCategories
    ELSE SliceLoop(t, path, 2, << path[1] >>, get_edge_category(t, path[2]), NoCategories)

RECURSIVE CategorizePaths(_, _, _)
CategorizePaths(t, all_paths, result) ==
    IF all_paths = << >> THEN result
    ELSE CategorizePaths(t, Tail(all_paths),
            [cat \in DOMAIN result |->
                result[cat] \o slice_path_by_category(t, Head(all_paths))[cat]])

categorize_segments(t, self) ==
    CategorizePaths(t, non_overlapping_segments(t, self), NoCategories)

NoSegments == [op |-> "none", paths |-> << >>, categories |-> NoCategories]

\* no segment method has been called
NoSegmentCalls ==
    /\ seg_tree = [parent |-> << None >>, cover |-> << "UNCOVERED" >>,
                   is_control_node |-> << FALSE >>]
    /\ seg_self = 1
    /\ segments = NoSegments

\* PlanGeometry._isochrone before the first call of get_isochrone
NoIsochrone == [cached |-> FALSE, positions |-> {}]

NoCall == [op |-> "none", outcome |-> "none", error |-> "none", cp_model |-> FALSE]

Init ==
    /\ net \in NetworkNames
    /\ lk_point \in LkPoints(net)
    /\ time_elapsed \in ElapsedChoices
    /\ time_margin \in MarginChoices
    /\ en_order \in Permutations_(Network(net).escape_nodes)
    /\ vehicles \in { VehicleDict(S) : S \in { T \in SUBSET VehiclePool(net) :
                                                Cardinality(T) <= MaxVehicles } }
    /\ vehicles_dto = DtoList(vehicles)
    /\ pc = "new"
    /\ lk_position = None
    /\ times_to_nodes = << >>
    /\ paths_to_nodes = << >>
    /\ tree_dict = << >>
    /\ candidate_nodes = << >>
    /\ candidate_counter = 0
    /\ assignable_vids = << >>
    /\ plan = None
    /\ calls = 0
    /\ isochrone = NoIsochrone
    /\ NoLinestringCalls
    /\ NoSegmentCalls
    /\ last = NoCall

scenario_inputs == << net, lk_point, time_elapsed, time_margin, en_order, vehicles_dto >>

\* what neither the escape model nor the planner writes
\* the geometry cache of the network's edges and the requests that read it
linestrings == << edge_geometry, requests >>

\* the tree the segment methods of TreeNode work on, and their result
tree_segments == << seg_tree, seg_self, segments >>

inputs == << scenario_inputs, isochrone, linestrings, tree_segments >>

escape_model == << lk_position, times_to_nodes, paths_to_nodes, candidate_nodes,
                   candidate_counter >>

(***************************************************************************)
(* EscapeModel(network, lk_point, time_elapsed)                            *)
(***************************************************************************)
NewEscapeModel ==
    /\ pc = "new"
    /\ \E em \in { EscapeModelInit(net, lk_point, time_elapsed, en_order) } :
          IF em.raised
          THEN /\ pc' = "failed"
               /\ last' = [op |-> "EscapeModel", outcome |-> "raised",
                           error |-> IF DOMAIN em.times_to_nodes = {} THEN "ValueError"
                                     ELSE IF 0 \notin DOMAIN em.tree_dict THEN "KeyError"
                                     ELSE "AssertionError",
                           cp_model |-> FALSE]
               /\ UNCHANGED << escape_model, tree_dict >>
          ELSE /\ pc' = "ready"
               /\ lk_position' = em.lk_position
               /\ times_to_nodes' = em.times_to_nodes
               /\ paths_to_nodes' = em.paths_to_nodes
               /\ tree_dict' = em.tree_dict
               /\ candidate_nodes' = em.candidate_nodes
               /\ candidate_counter' = em.counter
               /\ last' = [op |-> "EscapeModel", outcome |-> "returned",
                           error |-> "none", cp_model |-> FALSE]
    /\ UNCHANGED << inputs, vehicles, assignable_vids, plan, calls >>

(***************************************************************************)
(* Planner.plan_interception(), one action per way it can end.             *)
(***************************************************************************)
CanPlan == pc = "ready" /\ calls < MaxCalls

Raised(error, built) ==
    [op |-> "plan_interception", outcome |-> "raised", error |-> error, cp_model |-> built]

Returned(built) ==
    [op |-> "plan_interception", outcome |-> "returned", error |-> "none", cp_model |-> built]

\* the values plan_interception works with once the filter has run
node_scores == [j \in DOMAIN candidate_nodes |-> candidate_nodes[j].score]

adv_times_to_nodes == [j \in DOMAIN candidate_nodes |-> candidate_nodes[j].time_reached]

candidate_osmids == [j \in DOMAIN candidate_nodes |-> candidate_nodes[j].osmid]

adv_paths_to_nodes == get_paths_as_seq_indices(tree_dict)

\* vehicle_node_matrix[v_i][n_j] with n_j = None: list index is not an int
PathIndexRaises == \E path_indices \in adv_paths_to_nodes : None \in Range(path_indices)

\* time_elapsed = 0 and a vehicle to filter: the division raises
PlanZeroDivisionError ==
    /\ CanPlan
    /\ time_elapsed = 0
    /\ DOMAIN vehicles # {}
    /\ assignable_vids' = << >>
    /\ calls' = calls + 1
    /\ last' = Raised("ZeroDivisionError", FALSE)
    /\ UNCHANGED << inputs, pc, escape_model, tree_dict, vehicles, plan >>

FilterRuns == CanPlan /\ (time_elapsed # 0 \/ DOMAIN vehicles = {})

\* no vehicle passes the filter: Plan(0)
PlanNoAssignable ==
    /\ FilterRuns
    /\ FilteredVids(vehicles, time_elapsed) = << >>
    /\ vehicles' = FilteredVehicles(net, vehicles, time_elapsed)
    /\ assignable_vids' = << >>
    /\ plan' = EmptyPlan(0)
    /\ calls' = calls + 1
    /\ last' = Returned(FALSE)
    /\ UNCHANGED << inputs, pc, escape_model, tree_dict >>

\* a candidate node is missing from an assignable vehicle's times_to_nodes
PlanKeyError ==
    /\ FilterRuns
    /\ \E vs \in { FilteredVehicles(net, vehicles, time_elapsed) } :
       \E vids \in { FilteredVids(vehicles, time_elapsed) } :
          /\ vids # << >>
          /\ TimeMatrixRaises(vs, vids, candidate_osmids)
          /\ vehicles' = vs
          /\ assignable_vids' = vids
    /\ calls' = calls + 1
    /\ last' = Raised("KeyError", FALSE)
    /\ UNCHANGED << inputs, pc, escape_model, tree_dict, plan >>

\* a path index list holds None: posting constraint 3 raises
PlanTypeError ==
    /\ FilterRuns
    /\ \E vs \in { FilteredVehicles(net, vehicles, time_elapsed) } :
       \E vids \in { FilteredVids(vehicles, time_elapsed) } :
          /\ vids # << >>
          /\ ~TimeMatrixRaises(vs, vids, candidate_osmids)
          /\ PathIndexRaises
          /\ vehicles' = vs
          /\ assignable_vids' = vids
    /\ calls' = calls + 1
    /\ last' = Raised("TypeError", TRUE)
    /\ UNCHANGED << inputs, pc, escape_model, tree_dict, plan >>

ModelPosted(vs, vids) ==
    /\ vids # << >>
    /\ ~TimeMatrixRaises(vs, vids, candidate_osmids)
    /\ ~PathIndexRaises

\* the solver ends without a solution (neither OPTIMAL nor FEASIBLE)
PlanSolverFails ==
    /\ FilterRuns
    /\ \E vs \in { FilteredVehicles(net, vehicles, time_elapsed) } :
       \E vids \in { FilteredVids(vehicles, time_elapsed) } :
          /\ ModelPosted(vs, vids)
          /\ vehicles' = vs
          /\ assignable_vids' = vids
    /\ calls' = calls + 1
    /\ last' = Raised("Exception", TRUE)
    /\ UNCHANGED << inputs, pc, escape_model, tree_dict, plan >>

\* the solver returns a solution x (OPTIMAL or FEASIBLE)
PlanSolved ==
    /\ FilterRuns
    /\ \E vs \in { FilteredVehicles(net, vehicles, time_elapsed) } :
       \E vids \in { FilteredVids(vehicles, time_elapsed) } :
          /\ ModelPosted(vs, vids)
          /\ \E times_v_n \in { get_time_matrix(vs, vids, candidate_osmids) } :
             \E num_vehicles \in { Len(times_v_n) } :
             \E num_nodes \in { Len(times_v_n[1]) } :
             \E x \in Solutions(adv_times_to_nodes, times_v_n, time_margin,
                                num_vehicles, num_nodes, adv_paths_to_nodes) :
             \E assignments \in { PlanAssignments(x, vids, candidate_nodes, times_v_n) } :
                     /\ vehicles' = StatusAfter(vs, vids, x)
                     /\ assignable_vids' = vids
                     /\ tree_dict' = set_cover_status(MarkControlNodes(tree_dict, assignments))
                     /\ plan' = [assignments |-> assignments,
                                 solution_score |-> ObjectiveValue(x, node_scores),
                                 nb_assignable_vehicles |-> num_vehicles]
    /\ calls' = calls + 1
    /\ last' = Returned(TRUE)
    /\ UNCHANGED << inputs, pc, escape_model >>

(***************************************************************************)
(* ScenarioDTO.to_domain(network): the scenario of a request.              *)
(***************************************************************************)
ScenarioToDomain ==
    /\ pc = "request"
    /\ vehicles' = ScenarioDTO_to_domain(vehicles_dto)
    /\ pc' = "new"
    /\ last' = [op |-> "to_domain", outcome |-> "returned", error |-> "none",
                cp_model |-> FALSE]
    /\ UNCHANGED << inputs, escape_model, tree_dict, assignable_vids, plan, calls >>

Next ==
    \/ NewEscapeModel
    \/ PlanZeroDivisionError
    \/ PlanNoAssignable
    \/ PlanKeyError
    \/ PlanTypeError
    \/ PlanSolverFails
    \/ PlanSolved

Spec == Init /\ [][Next]_vars

\* A planning request from its payload on: POST /generate (app.py)
InitRequest ==
    /\ net \in NetworkNames
    /\ lk_point \in LkPoints(net)
    /\ time_elapsed \in ElapsedChoices
    /\ time_margin = DEFAULT_TIME_MARGIN
    /\ en_order = SortedSeq(Network(net).escape_nodes)
    /\ vehicles_dto \in RequestLists(net)
    /\ vehicles = << >>
    /\ pc = "request"
    /\ lk_position = None
    /\ times_to_nodes = << >>
    /\ paths_to_nodes = << >>
    /\ tree_dict = << >>
    /\ candidate_nodes = << >>
    /\ candidate_counter = 0
    /\ assignable_vids = << >>
    /\ plan = None
    /\ calls = 0
    /\ isochrone = NoIsochrone
    /\ NoLinestringCalls
    /\ NoSegmentCalls
    /\ last = NoCall

NextRequest == ScenarioToDomain \/ Next

SpecRequest == InitRequest /\ [][NextRequest]_vars

(***************************************************************************)
(* Direct use of the escape model, as the unit tests make of it: a node's  *)
(* cover is written, then set_cover_status() is run.                       *)
(***************************************************************************)
CoverOp(op) == [op |-> op, outcome |-> "returned", error |-> "none", cp_model |-> FALSE]

\* node.cover = c
AssignCover ==
    /\ pc = "ready"
    /\ calls < MaxCoverWrites
    /\ \E n \in DOMAIN tree_dict \ {0} : \E c \in { "UNCOVERED", "MIXED", "COVERED" } :
          /\ tree_dict[n].cover # c
          /\ tree_dict' = [tree_dict EXCEPT ![n].cover = c]
    /\ calls' = calls + 1
    /\ last' = CoverOp("assign_cover")
    /\ UNCHANGED << inputs, pc, escape_model, vehicles, assignable_vids, plan >>

\* escape_model.set_cover_status()
SetCoverStatus ==
    /\ pc = "ready"
    /\ tree_dict' = set_cover_status(tree_dict)
    /\ last' = CoverOp("set_cover_status")
    /\ UNCHANGED << inputs, pc, escape_model, vehicles, assignable_vids, plan, calls >>

InitCover == Init /\ DOMAIN vehicles = {} /\ time_margin = 0

NextCover == NewEscapeModel \/ AssignCover \/ SetCoverStatus

SpecCover == InitCover /\ [][NextCover]_vars

(***************************************************************************)
(* PlanGeometry.get_isochrone (plan_geometry.py).  A position off the      *)
(* half-edge grid carries its edge cursor as the fraction ec_num / ec_den; *)
(* the polygon is represented by the positions that span it.               *)
(***************************************************************************)
\* RoadNetwork.update_position_after_duration: raised is the ValueError of
\* a cursor pushed beyond [0, 1]
update_position_after_duration(name, position, duration, towards_v) ==
    [kind |-> "present", u |-> position.u, v |-> position.v,
     ec_num |-> IF towards_v
                THEN position.ec2 * get_edge_travel_time(name, position.u, position.v)
                        + 2 * duration
                ELSE position.ec2 * get_edge_travel_time(name, position.u, position.v)
                        - 2 * duration,
     ec_den |-> 2 * get_edge_travel_time(name, position.u, position.v),
     raised |-> IF towards_v
                THEN position.ec2 * get_edge_travel_time(name, position.u, position.v)
                        + 2 * duration
                     > 2 * get_edge_travel_time(name, position.u, position.v)
                ELSE position.ec2 * get_edge_travel_time(name, position.u, position.v)
                        - 2 * duration < 0]

get_njois(td) == { n \in DOMAIN td : td[n].is_njoi }

\* the position of the adversary now, on the way to the NJOI
PresentPosition(name, td, position, elapsed, njoi) ==
    IF td[njoi].parent = 0
    THEN update_position_after_duration(name, position, Max({10, elapsed}),
                                        njoi = position.v)
    ELSE [kind |-> "present", u |-> td[njoi].parent, v |-> njoi,
          ec_num |-> 0 - td[td[njoi].parent].time_reached,
          ec_den |-> td[njoi].time_reached - td[td[njoi].parent].time_reached,
          raised |-> FALSE]

\* the escape nodes the adversary is already past
BehindLeaves(td) == { n \in Leaves(td, 0) : td[n].time_reached <= 0 }

\* the point between the LKP and an escape node already passed
BehindPosition(times, elapsed, en) ==
    [kind |-> "behind", u |-> 0, v |-> en, ec_num |-> 2 * elapsed,
     ec_den |-> times[en] + 2 * elapsed, raised |-> FALSE]

\* the errors get_isochrone can end with: the failed assertion or the
\* ValueError of the loop over the NJOIs (whichever NJOI comes first in the
\* traversal), else the division by zero of the loop over the leaves
IsochroneErrors(name, td, position, elapsed, times) ==
    IF \E njoi \in get_njois(td) :
          \/ td[njoi].time_reached - td[td[njoi].parent].time_reached <= 0
          \/ PresentPosition(name, td, position, elapsed, njoi).raised
    THEN { "AssertionError" : njoi \in { n \in get_njois(td) :
                td[n].time_reached - td[td[n].parent].time_reached <= 0 } }
         \cup { "ValueError" : njoi \in { n \in get_njois(td) :
                PresentPosition(name, td, position, elapsed, n).raised } }
    ELSE { "ZeroDivisionError" : en \in { n \in BehindLeaves(td) :
                times[n] + 2 * elapsed = 0 } }

get_isochrone(name, td, position, elapsed, times) ==
    { PresentPosition(name, td, position, elapsed, njoi) : njoi \in get_njois(td) }
        \cup { BehindPosition(times, elapsed, en) : en \in BehindLeaves(td) }

GetIsochroneReturns ==
    /\ pc = "ready"
    /\ isochrone = NoIsochrone
    /\ IsochroneErrors(net, tree_dict, lk_position, time_elapsed, times_to_nodes) = {}
    /\ isochrone' = [cached |-> TRUE,
                     positions |-> get_isochrone(net, tree_dict, lk_position,
                                                 time_elapsed, times_to_nodes)]
    /\ last' = [op |-> "get_isochrone", outcome |-> "returned", error |-> "none",
                cp_model |-> FALSE]
    /\ UNCHANGED << scenario_inputs, linestrings, tree_segments, pc, escape_model,
                    tree_dict, vehicles,
                    assignable_vids, plan, calls >>

GetIsochroneRaises ==
    /\ pc = "ready"
    /\ isochrone = NoIsochrone
    /\ \E e \in IsochroneErrors(net, tree_dict, lk_position, time_elapsed, times_to_nodes) :
          last' = [op |-> "get_isochrone", outcome |-> "raised", error |-> e,
                   cp_model |-> FALSE]
    /\ UNCHANGED << inputs, pc, escape_model, tree_dict, vehicles,
                    assignable_vids, plan, calls >>

\* the escape models a geometry is asked of, short elapsed times included
GeometryElapsedChoices == ElapsedChoices \cup { 4 }

InitGeometry ==
    /\ net \in NetworkNames
    /\ lk_point \in LkPoints(net)
    /\ time_elapsed \in GeometryElapsedChoices
    /\ time_margin = DEFAULT_TIME_MARGIN
    /\ en_order = SortedSeq(Network(net).escape_nodes)
    /\ vehicles = << >>
    /\ vehicles_dto = << >>
    /\ pc = "new"
    /\ lk_position = None
    /\ times_to_nodes = << >>
    /\ paths_to_nodes = << >>
    /\ tree_dict = << >>
    /\ candidate_nodes = << >>
    /\ candidate_counter = 0
    /\ assignable_vids = << >>
    /\ plan = None
    /\ calls = 0
    /\ isochrone = NoIsochrone
    /\ NoLinestringCalls
    /\ NoSegmentCalls
    /\ last = NoCall

NextGeometry == NewEscapeModel \/ GetIsochroneReturns \/ GetIsochroneRaises

SpecGeometry == InitGeometry /\ [][NextGeometry]_vars

(***************************************************************************)
(* RoadNetwork.get_edge_as_linestring, statement by statement, for         *)
(* requests that share the network.                                        *)
(***************************************************************************)
unchanged_by_linestring ==
    << scenario_inputs, isochrone, tree_segments, pc, escape_model, tree_dict,
       vehicles, assignable_vids, plan, calls, last >>

\* edge_data = self.graph.get_edge_data(u, v, 0)
GetEdgeData ==
    /\ \E t \in Requests : \E p \in Edge0Pairs(net) :
          /\ requests[t].pc = "idle"
          /\ requests' = [requests EXCEPT ![t].pc = "test", ![t].u = p[1], ![t].v = p[2]]
    /\ UNCHANGED << edge_geometry, unchanged_by_linestring >>

\* if "geometry" not in edge_data
TestGeometry ==
    /\ \E t \in Requests :
          /\ requests[t].pc = "test"
          /\ requests' = [requests EXCEPT ![t].pc =
                IF << requests[t].u, requests[t].v >> \notin DOMAIN edge_geometry
                THEN "synthesize" ELSE "cached"]
    /\ UNCHANGED << edge_geometry, unchanged_by_linestring >>

\* linestring = LineString([Point(...u...), Point(...v...)])
SynthesizeLinestring ==
    /\ \E t \in Requests :
          /\ requests[t].pc = "synthesize"
          /\ requests' = [requests EXCEPT ![t].pc = "store", ![t].synthesized = TRUE,
                ![t].linestring = StraightLineString(net, requests[t].u, requests[t].v)]
    /\ UNCHANGED << edge_geometry, unchanged_by_linestring >>

\* edge_data["geometry"] = linestring
StoreGeometry ==
    /\ \E t \in Requests :
          /\ requests[t].pc = "store"
          /\ edge_geometry' = (<< requests[t].u, requests[t].v >> :> requests[t].linestring)
                                 @@ edge_geometry
          /\ requests' = [requests EXCEPT ![t].pc = "return"]
    /\ UNCHANGED unchanged_by_linestring

\* linestring = edge_data["geometry"]
ReadGeometry ==
    /\ \E t \in Requests :
          /\ requests[t].pc = "cached"
          /\ requests' = [requests EXCEPT ![t].pc = "return",
                ![t].linestring = edge_geometry[<< requests[t].u, requests[t].v >>]]
    /\ UNCHANGED << edge_geometry, unchanged_by_linestring >>

\* return linestring
ReturnLinestring ==
    /\ \E t \in Requests :
          /\ requests[t].pc = "return"
          /\ requests' = [requests EXCEPT ![t].pc = "done",
                                          ![t].result = requests[t].linestring]
    /\ UNCHANGED << edge_geometry, unchanged_by_linestring >>

InitLinestring ==
    /\ net \in NetworkNames
    /\ lk_point = CHOOSE p \in LkPoints(net) : TRUE
    /\ time_elapsed = 0
    /\ time_margin = DEFAULT_TIME_MARGIN
    /\ en_order = SortedSeq(Network(net).escape_nodes)
    /\ vehicles = << >>
    /\ vehicles_dto = << >>
    /\ pc = "new"
    /\ lk_position = None
    /\ times_to_nodes = << >>
    /\ paths_to_nodes = << >>
    /\ tree_dict = << >>
    /\ candidate_nodes = << >>
    /\ candidate_counter = 0
    /\ assignable_vids = << >>
    /\ plan = None
    /\ calls = 0
    /\ isochrone = NoIsochrone
    /\ NoLinestringCalls
    /\ NoSegmentCalls
    /\ last = NoCall

NextLinestring ==
    \/ GetEdgeData
    \/ TestGeometry
    \/ SynthesizeLinestring
    \/ StoreGeometry
    \/ ReadGeometry
    \/ ReturnLinestring

SpecLinestring == InitLinestring /\ [][NextLinestring]_vars

(***************************************************************************)
(* The segment methods of TreeNode called on a node of a tree.             *)
(***************************************************************************)
unchanged_by_segments ==
    << scenario_inputs, isochrone, linestrings, seg_tree, seg_self, pc, escape_model,
       tree_dict, vehicles, assignable_vids, plan, calls, last >>

NonOverlappingSegments ==
    /\ segments.op = "none"
    /\ segments' = [op |-> "non_overlapping_segments",
                    paths |-> non_overlapping_segments(seg_tree, seg_self),
                    categories |-> NoCategories]
    /\ UNCHANGED unchanged_by_segments

CategorizeSegments ==
    /\ segments.op = "none"
    /\ segments' = [op |-> "categorize_segments", paths |-> << >>,
                    categories |-> categorize_segments(seg_tree, seg_self)]
    /\ UNCHANGED unchanged_by_segments

InitSegments ==
    /\ net = "fork"
    /\ lk_point = CHOOSE p \in LkPoints(net) : TRUE
    /\ time_elapsed = 0
    /\ time_margin = DEFAULT_TIME_MARGIN
    /\ en_order = SortedSeq(Network(net).escape_nodes)
    /\ vehicles = << >>
    /\ vehicles_dto = << >>
    /\ pc = "new"
    /\ lk_position = None
    /\ times_to_nodes = << >>
    /\ paths_to_nodes = << >>
    /\ tree_dict = << >>
    /\ candidate_nodes = << >>
    /\ candidate_counter = 0
    /\ assignable_vids = << >>
    /\ plan = None
    /\ calls = 0
    /\ isochrone = NoIsochrone
    /\ NoLinestringCalls
    /\ seg_tree \in UNION { SegTrees(n) : n \in 1..MaxTreeNodes }
    /\ seg_self \in DOMAIN seg_tree.parent
    /\ segments = NoSegments
    /\ last = NoCall

NextSegments == NonOverlappingSegments \/ CategorizeSegments

SpecSegments == InitSegments /\ [][NextSegments]_vars

(***************************************************************************)
(* Properties.                                                             *)
(***************************************************************************)
PlanReturned == last.op = "plan_interception" /\ last.outcome = "returned"

Built == pc = "ready"

Assignments == { plan.assignments[i] : i \in DOMAIN plan.assignments }

RECURSIVE SumSet(_, _)
SumSet(S, f) ==
    IF S = {} THEN 0
    ELSE LET x == CHOOSE y \in S : TRUE IN f[x] + SumSet(S \ {x}, f)

\* C1: in a returned plan no two assignments have the same destination node,
\* and for every path index list (one per NJOI-to-leaf pair) at most one
\* assignment has a destination whose candidate id is in the list.
C1_NodeAndPathExclusive ==
    PlanReturned =>
        /\ \A i, j \in DOMAIN plan.assignments :
              i # j => plan.assignments[i].destination_node # plan.assignments[j].destination_node
        /\ \A P \in get_paths_as_seq_indices(tree_dict) :
              Cardinality({ i \in DOMAIN plan.assignments :
                              tree_dict[plan.assignments[i].destination_node].id \in Range(P) }) <= 1

\* two vehicles were assigned, and two NJOI-to-leaf lists share a candidate
C1_Witness ==
    /\ PlanReturned
    /\ Len(plan.assignments) >= 2
    /\ \E P, Q \in get_paths_as_seq_indices(tree_dict) : P # Q /\ Range(P) \cap Range(Q) # {}

\* C2: every assignment of a returned plan has adv_time_to_dest -
\* time_to_dest >= time_margin on its recorded values, and no (vehicle, node)
\* pair with adv_time_reached - vehicle_time - time_margin <= 0, vehicle_time
\* being the entry of the time matrix, is assigned.
C2_TimeMargin ==
    PlanReturned =>
        \A a \in Assignments :
            /\ a.adv_time_to_dest - 2 * a.time_to_dest >= 2 * time_margin
            /\ ~(tree_dict[a.destination_node].time_reached
                   - 2 * (vehicles[a.vehicle].times_to_nodes[a.destination_node] \div 2)
                   - 2 * time_margin <= 0)

\* a plan with an assignment, under a positive margin, while some assignable
\* vehicle could not have been sent in time to some candidate node
C2_Witness ==
    /\ PlanReturned
    /\ time_margin > 0
    /\ Assignments # {}
    /\ \E i \in DOMAIN assignable_vids : \E j \in DOMAIN candidate_nodes :
          candidate_nodes[j].time_reached
            - 2 * (vehicles[assignable_vids[i]].times_to_nodes[candidate_nodes[j].osmid] \div 2)
            - 2 * time_margin <= 0

\* C3: after plan_interception returns, a vehicle is in at most one
\* assignment; it is ASSIGNED iff it is in exactly one; every other vehicle
\* that passed the pre-filter is UNASSIGNED; a TOO_CLOSE_TO_LKP vehicle is in
\* none; there are at most nb_assignable_vehicles assignments.
AssignmentsOf(id) == { i \in DOMAIN plan.assignments : plan.assignments[i].vehicle = id }

C3_VehicleStatus ==
    PlanReturned =>
        /\ \A id \in DOMAIN vehicles :
              /\ Cardinality(AssignmentsOf(id)) <= 1
              /\ vehicles[id].status = "ASSIGNED" <=> Cardinality(AssignmentsOf(id)) = 1
              /\ (id \in Range(assignable_vids) /\ AssignmentsOf(id) = {})
                    => vehicles[id].status = "UNASSIGNED"
              /\ vehicles[id].status = "TOO_CLOSE_TO_LKP" => AssignmentsOf(id) = {}
        /\ Len(plan.assignments) <= plan.nb_assignable_vehicles

\* one vehicle got a node, another passed the filter and got none
C3_Witness ==
    /\ PlanReturned
    /\ \E id \in DOMAIN vehicles : vehicles[id].status = "ASSIGNED"
    /\ \E id \in DOMAIN vehicles : vehicles[id].status = "UNASSIGNED"

\* C4: a call of plan_interception with no vehicle, or whose vehicles are
\* all excluded by the pre-filter, returns a plan with no assignment, score
\* 0 and 0 assignable vehicles, without raising and without a constraint
\* model.
AllExcluded ==
    \/ DOMAIN vehicles = {}
    \/ /\ time_elapsed > 0
       /\ \A id \in DOMAIN vehicles : TooCloseToLkp(vehicles[id].dist, time_elapsed)

C4_EmptyPlan ==
    [][ (AllExcluded /\ last'.op = "plan_interception" /\ calls' = calls + 1)
          => /\ last'.outcome = "returned"
             /\ plan' = [assignments |-> << >>, solution_score |-> 0,
                         nb_assignable_vehicles |-> 0]
             /\ ~last'.cp_model ]_vars

\* a call returned while the scenario has vehicles and none passed the filter
C4_Witness ==
    /\ PlanReturned
    /\ DOMAIN vehicles # {}
    /\ \A id \in DOMAIN vehicles : vehicles[id].status = "TOO_CLOSE_TO_LKP"
    /\ assignable_vids = << >>

\* C5: after set_cover_status(), whatever the covers were, a non-leaf is
\* COVERED iff all its children are, UNCOVERED iff all its children are,
\* MIXED otherwise; the leaves keep their cover.
CoverRule(td) ==
    \A n \in DOMAIN td :
        ~IsLeaf(td, n) =>
            LET all_covered == \A c \in Children(td, n) : td[c].cover = "COVERED"
                all_uncovered == \A c \in Children(td, n) : td[c].cover = "UNCOVERED"
            IN /\ td[n].cover = "COVERED" <=> all_covered
               /\ td[n].cover = "UNCOVERED" <=> all_uncovered
               /\ td[n].cover = "MIXED" <=> (~all_covered /\ ~all_uncovered)

C5_CoverPropagation ==
    [][ last'.op = "set_cover_status"
          => /\ CoverRule(tree_dict')
             /\ \A n \in DOMAIN tree_dict :
                   IsLeaf(tree_dict, n) => tree_dict'[n].cover = tree_dict[n].cover ]_vars

\* set_cover_status() has run on a tree with a COVERED leaf and an UNCOVERED
\* leaf, leaving a MIXED node above them
C5_Witness ==
    /\ last.op = "set_cover_status"
    /\ \E n \in DOMAIN tree_dict : IsLeaf(tree_dict, n) /\ tree_dict[n].cover = "COVERED"
    /\ \E n \in DOMAIN tree_dict : IsLeaf(tree_dict, n) /\ tree_dict[n].cover = "UNCOVERED"
    /\ \E n \in DOMAIN tree_dict : ~IsLeaf(tree_dict, n) /\ tree_dict[n].cover = "MIXED"
    /\ \E n \in DOMAIN tree_dict \ {0} : ~IsLeaf(tree_dict, n) /\ tree_dict[n].cover = "COVERED"

\* C6: after any sequence of plan_interception calls, a tree node is a
\* control node iff the plan returned last has an assignment to it.
C6_ControlNodesOfLastPlan ==
    PlanReturned =>
        \A n \in DOMAIN tree_dict :
            tree_dict[n].is_control_node
              <=> \E a \in Assignments : a.destination_node = n

\* C7: on every root-to-leaf chain, if some node has time_reached > 0 then
\* exactly one node is flagged is_njoi and it is the first such node; if
\* none has, no node is flagged.
Chain(td, leaf) == PathFromRoot(td, leaf)

C7_OneNjoiPerChain ==
    Built =>
        \A leaf \in Leaves(tree_dict, 0) :
            LET chain == Chain(tree_dict, leaf)
                positive == { i \in DOMAIN chain : tree_dict[chain[i]].time_reached > 0 }
                flagged == { i \in DOMAIN chain : tree_dict[chain[i]].is_njoi }
            IN IF positive = {} THEN flagged = {} ELSE flagged = { Min(positive) }

\* a tree with a chain whose NJOI has a later node below it, and a chain the
\* adversary has already run through
C7_Witness ==
    /\ Built
    /\ \E leaf \in Leaves(tree_dict, 0) :
          /\ ~tree_dict[leaf].is_njoi
          /\ tree_dict[leaf].time_reached > 0
    /\ \E leaf \in Leaves(tree_dict, 0) : tree_dict[leaf].time_reached <= 0

\* C8: the score of a tree node is the sum, over the reachable escape nodes
\* whose path holds the node, of 0 when the node's time_reached <= 0 and
\* otherwise of rank(last edge of that path) * 80 plus the time term.
ReachedEscapeNodes == { e \in Network(net).escape_nodes : e \in DOMAIN paths_to_nodes }

EscapePathsThrough(n) ==
    { e \in ReachedEscapeNodes : n \in Range(<< 0 >> \o paths_to_nodes[e]) }

LastEdgeRank(e) ==
    LET path == paths_to_nodes[e]
    IN IF Len(path) > 1 THEN get_edge_hw_as_int(net, path[Len(path) - 1], path[Len(path)])
       ELSE get_edge_hw_as_int(net, lk_position.u, lk_position.v)

Contribution(e, n) ==
    IF tree_dict[n].time_reached <= 0 THEN 0
    ELSE LastEdgeRank(e) * 80 + TimeTerm(tree_dict[n].time_reached)

C8_ScoreIsSumOverPaths ==
    Built =>
        \A n \in DOMAIN tree_dict :
            /\ tree_dict[n].score =
                  SumSet(EscapePathsThrough(n), [e \in EscapePathsThrough(n) |-> Contribution(e, n)])
            /\ tree_dict[n].time_reached <= 0 => tree_dict[n].score = 0

\* a node ahead of the adversary that two escape paths run through
C8_Witness ==
    /\ Built
    /\ \E n \in DOMAIN tree_dict :
          /\ tree_dict[n].time_reached > 0
          /\ Cardinality(EscapePathsThrough(n)) >= 2
          /\ \E e, f \in EscapePathsThrough(n) : LastEdgeRank(e) # LastEdgeRank(f)

\* C9: a tree node carries a candidate id iff its final score is > 0 and
\* its time_reached is > 0, whatever the order of the escape nodes.
C9_CandidateIffScored ==
    Built =>
        \A n \in DOMAIN tree_dict :
            tree_dict[n].id # None
              <=> (tree_dict[n].score > 0 /\ tree_dict[n].time_reached > 0)

\* C10: the leaves of the tree are exactly the escape nodes that have a path
\* in the routing result; no escape node is internal, no other node a leaf.
C10_LeavesAreReachedEscapeNodes ==
    Built =>
        /\ Leaves(tree_dict, 0) = ReachedEscapeNodes
        /\ \A n \in DOMAIN tree_dict :
              IsLeaf(tree_dict, n) <=> n \in Network(net).escape_nodes

\* a tree built while one escape node has no path and another one has
C10_Witness ==
    /\ Built
    /\ ReachedEscapeNodes # {}
    /\ ReachedEscapeNodes # Network(net).escape_nodes
    /\ \E n \in DOMAIN tree_dict \ {0} : ~IsLeaf(tree_dict, n)

\* C11: every node n of the routing result has times[n] >= -time_elapsed,
\* a path that starts at u or v of the snapped position, ends at n and
\* follows edges of the graph view, and a time equal to the fractional-edge
\* time to that first endpoint plus the travel_time of the consecutive edges
\* of the path, minus time_elapsed.
SnappedEdgeTime ==
    (CHOOSE e \in Network(net).edges :
        e.u = lk_position.u /\ e.v = lk_position.v /\ e.key = 0).travel_time

FractionalTimeTo(endpoint) ==
    IF endpoint = lk_position.u THEN SnappedEdgeTime * lk_position.ec2
    ELSE SnappedEdgeTime * (2 - lk_position.ec2)

PathEdges(p) == { << p[i], p[i + 1] >> : i \in 1..(Len(p) - 1) }

SinkView == { e \in Network(net).edges : e.u \notin Network(net).escape_nodes }

PathTravelTime(p) ==
    SumSeq([i \in 1..(Len(p) - 1) |->
              Min({ e.travel_time : e \in { x \in SinkView : x.u = p[i] /\ x.v = p[i + 1] } })])

C11_TimesMatchPaths ==
    Built =>
        \A n \in DOMAIN paths_to_nodes :
            /\ times_to_nodes[n] >= 0 - 2 * time_elapsed
            /\ paths_to_nodes[n][1] \in { lk_position.u, lk_position.v }
            /\ paths_to_nodes[n][Len(paths_to_nodes[n])] = n
            /\ \A pr \in PathEdges(paths_to_nodes[n]) :
                  \E e \in SinkView : e.u = pr[1] /\ e.v = pr[2]
            /\ times_to_nodes[n] =
                  FractionalTimeTo(paths_to_nodes[n][1])
                    + 2 * PathTravelTime(paths_to_nodes[n]) - 2 * time_elapsed

\* a routing from off the middle of a two-way edge, some time after the
\* sighting, that leaves by u for one node and by v for another, three
\* nodes away
C11_Witness ==
    /\ Built
    /\ time_elapsed > 0
    /\ lk_position.ec2 # 1
    /\ \E n, m \in DOMAIN paths_to_nodes :
          /\ paths_to_nodes[n][1] = lk_position.u
          /\ paths_to_nodes[m][1] = lk_position.v
          /\ Len(paths_to_nodes[m]) >= 3

\* C12: routing from a two-way edge, a node reached both via u and via v
\* with exactly equal total times gets the path found via u.
SnappedEdgeIsTwoWay ==
    (CHOOSE e \in Network(net).edges :
        e.u = lk_position.u /\ e.v = lk_position.v /\ e.key = 0).oneway # "yes"

SearchFromU ==
    single_source_dijkstra(
        { e \in SinkView : ~(e.u = lk_position.u /\ e.v = lk_position.v) }, lk_position.u)

SearchFromV ==
    single_source_dijkstra(
        { e \in SinkView : ~(e.u = lk_position.v /\ e.v = lk_position.u) }, lk_position.v)

C12_TieTakesPathViaU ==
    (Built /\ last.op = "EscapeModel" /\ SnappedEdgeIsTwoWay) =>
        \A from_u \in { SearchFromU } : \A from_v \in { SearchFromV } :
            \A n \in DOMAIN from_u.times \cap DOMAIN from_v.times :
                (2 * from_u.times[n] + FractionalTimeTo(lk_position.u)
                   = 2 * from_v.times[n] + FractionalTimeTo(lk_position.v))
                  => paths_to_nodes[n] = from_u.paths[n]

\* C13: with escape nodes as sinks the position routed from lies on an edge
\* of the sink-filtered view; a point whose nearest edge starts at an escape
\* node is snapped to an edge of the view and the routing does not fail.
C13_SnapsIntoSinkView ==
    (pc # "new" /\ lk_point.u \in Network(net).escape_nodes) =>
        /\ ~(pc = "failed" /\ last.error = "ValueError")
        /\ pc = "ready" =>
              \E e \in SinkView : e.u = lk_position.u /\ e.v = lk_position.v

\* C14: for an ordered pair (u, v) joined by several parallel edges, the
\* travel time and the highway rank returned by get_edge_travel_time and
\* get_edge_hw_as_int are those of a parallel edge of the highest rank.
ParallelEdges(u, v) == { e \in Network(net).edges : e.u = u /\ e.v = v }

ParallelPairs ==
    { << e.u, e.v >> : e \in { x \in Network(net).edges :
                                 Cardinality(ParallelEdges(x.u, x.v)) > 1 } }

C14_LookupTakesHighestRank ==
    Built =>
        \A pr \in ParallelPairs :
            \E e \in ParallelEdges(pr[1], pr[2]) :
                /\ \A x \in ParallelEdges(pr[1], pr[2]) :
                      HighwayRank(BaseType(x.highway)) <= HighwayRank(BaseType(e.highway))
                /\ get_edge_hw_as_int(net, pr[1], pr[2]) = HighwayRank(BaseType(e.highway))
                /\ get_edge_travel_time(net, pr[1], pr[2]) = e.travel_time

\* C15: from a position with ec = 0 on an edge (u, v), one-way or two-way,
\* the routing reaches the same nodes, each at the same time, as the
\* single-source search from the node u over the effective graph, minus
\* time_elapsed.
C15_StartOfEdgeIsSearchFromU ==
    (Built /\ last.op = "EscapeModel" /\ lk_position.ec2 = 0) =>
        \A from_node \in { single_source_dijkstra(SinkView, lk_position.u) } :
            /\ DOMAIN paths_to_nodes = DOMAIN from_node.times
            /\ \A n \in DOMAIN paths_to_nodes :
                  times_to_nodes[n] = 2 * from_node.times[n] - 2 * time_elapsed

\* C16: a request whose vehicle list holds two entries with the same id is
\* rejected with an InvalidInput error; it never becomes a scenario that
\* holds only one of the colliding vehicles.
HasIdCollision ==
    \E i, j \in DOMAIN vehicles_dto : i # j /\ vehicles_dto[i].id = vehicles_dto[j].id

C16_IdCollisionRejected ==
    (pc # "request" /\ HasIdCollision) =>
        /\ last.op = "to_domain" /\ last.outcome = "raised" /\ last.error = "InvalidInput"
        /\ Cardinality(DOMAIN vehicles) = 0

\* C17: for every escape model and every time_elapsed >= 0, below 10 s
\* included, get_isochrone completes without error: advancing the LKP
\* position by max(10, time_elapsed) seconds towards an NJOI whose parent is
\* the root leaves the edge cursor within [0, 1].
C17_IsochroneCompletes ==
    /\ ~(last.op = "get_isochrone" /\ last.outcome = "raised")
    /\ Built =>
          \A njoi \in get_njois(tree_dict) :
              tree_dict[njoi].parent = 0 =>
                  \A pos \in { PresentPosition(net, tree_dict, lk_position,
                                               time_elapsed, njoi) } :
                      /\ 0 <= pos.ec_num
                      /\ pos.ec_num <= pos.ec_den

\* C18: when requests running side by side call get_edge_as_linestring for
\* an edge without stored geometry, under every interleaving each receives
\* the straight segment between the coordinates of u and v, and the
\* geometry cached on the edge equals that same segment.
C18_SynthesisIsIdempotent ==
    /\ \A t \in Requests :
          (/\ requests[t].pc = "done"
           /\ << requests[t].u, requests[t].v >> \notin DOMAIN StoredGeometry(net))
          => requests[t].result = << NodeXY(net, requests[t].u), NodeXY(net, requests[t].v) >>
    /\ \A p \in DOMAIN edge_geometry \ DOMAIN StoredGeometry(net) :
          edge_geometry[p] = << NodeXY(net, p[1]), NodeXY(net, p[2]) >>

\* two requests both synthesized and stored the geometry of one edge
C18_Witness ==
    \E t1, t2 \in Requests :
        /\ t1 # t2
        /\ requests[t1].pc = "done" /\ requests[t2].pc = "done"
        /\ requests[t1].u = requests[t2].u /\ requests[t1].v = requests[t2].v
        /\ requests[t1].synthesized /\ requests[t2].synthesized
        /\ << requests[t1].u, requests[t1].v >> \in DOMAIN edge_geometry

\* C19: for every plan returned by plan_interception, the sum of score over
\* its assignments equals plan.solution_score (0 for a plan without
\* assignments).
C19_ScoresSumToSolutionScore ==
    PlanReturned =>
        /\ SumSeq([i \in DOMAIN plan.assignments |-> plan.assignments[i].score])
              = plan.solution_score
        /\ plan.assignments = << >> => plan.solution_score = 0

\* a solved plan that sends two vehicles to nodes of different scores
C19_Witness ==
    /\ PlanReturned
    /\ last.cp_model
    /\ Len(plan.assignments) = 2
    /\ plan.assignments[1].score # plan.assignments[2].score
    /\ plan.solution_score > 0

\* following the parent links from n reaches the root within k steps
RECURSIVE ClimbsToRoot(_, _, _)
ClimbsToRoot(td, n, k) ==
    \/ n = 0
    \/ /\ k > 0
       /\ n \in DOMAIN td
       /\ td[n].parent \in DOMAIN td
       /\ ClimbsToRoot(td, td[n].parent, k - 1)

\* C20: the escape tree holds exactly one TreeNode per distinct osmid (the
\* root and the nodes of the paths to the reached escape nodes), and its
\* parent links form a single cycle-free tree rooted at the synthetic node
\* of osmid 0 and time_reached = -time_elapsed, from which every tree node
\* is reachable.
C20_SingleRootedTree ==
    Built =>
        /\ DOMAIN tree_dict =
              {0} \cup UNION { Range(paths_to_nodes[en]) : en \in ReachedEscapeNodes }
        /\ \A n \in DOMAIN tree_dict : tree_dict[n].osmid = n
        /\ tree_dict[0].parent = None
        /\ tree_dict[0].time_reached = 0 - 2 * time_elapsed
        /\ \A n \in DOMAIN tree_dict \ {0} :
              /\ tree_dict[n].parent \in DOMAIN tree_dict
              /\ tree_dict[n].parent # n
              /\ ClimbsToRoot(tree_dict, n, Cardinality(DOMAIN tree_dict))

\* a tree that branches below the root, with a node shared by two escape
\* paths and time already elapsed
C20_Witness ==
    /\ Built
    /\ time_elapsed > 0
    /\ \E n \in DOMAIN tree_dict \ {0} :
          /\ Cardinality(Children(tree_dict, n)) >= 2
          /\ Cardinality({ en \in ReachedEscapeNodes : n \in Range(paths_to_nodes[en]) }) >= 2

\* the tree nodes that were given a candidate id
NodesWithId == { n \in DOMAIN tree_dict : tree_dict[n].id # None }

\* C21: the candidate ids assigned during the tree build are exactly the
\* integers 0..N-1 with N = len(candidate_nodes); each id is given to
\* exactly one tree node, and in candidate_nodes (sorted by id) the element
\* at index i has id i.
C21_CandidateIdsContiguous ==
    Built =>
        /\ { tree_dict[n].id : n \in NodesWithId } = 0..(Len(candidate_nodes) - 1)
        /\ \A n, m \in NodesWithId : tree_dict[n].id = tree_dict[m].id => n = m
        /\ \A i \in DOMAIN candidate_nodes :
              /\ candidate_nodes[i].id = i - 1
              /\ candidate_nodes[i].osmid \in NodesWithId
              /\ tree_dict[candidate_nodes[i].osmid].id = i - 1
        /\ candidate_counter = Len(candidate_nodes)

\* an escape model with at least three candidate nodes and a tree node
\* other than the root that has no id
C21_Witness ==
    /\ Built
    /\ Len(candidate_nodes) >= 3
    /\ \E n \in DOMAIN tree_dict \ {0} : tree_dict[n].id = None

\* C22: for every reached escape node e, the chain of tree nodes from the
\* root down to e is exactly 0 followed by paths_to_nodes[e], and
\* time_reached is non-decreasing along that chain (the paths of the
\* router, after the via-u / via-v merge too, fit into one tree).
C22_ChainIsRoutedPath ==
    Built =>
        \A e \in ReachedEscapeNodes :
            /\ e \in DOMAIN tree_dict
            /\ \A chain \in { PathFromRoot(tree_dict, e) } :
                  /\ chain = << 0 >> \o paths_to_nodes[e]
                  /\ \A i \in 1..(Len(chain) - 1) :
                        tree_dict[chain[i]].time_reached
                            <= tree_dict[chain[i + 1]].time_reached

\* the LKP lies inside a two-way edge, and of the reached escape nodes one
\* is routed via u and another via v
C22_Witness ==
    /\ Built
    /\ SnappedEdgeIsTwoWay
    /\ lk_position.ec2 = 1
    /\ \E e, f \in ReachedEscapeNodes :
          /\ Len(paths_to_nodes[e]) >= 2
          /\ Len(paths_to_nodes[f]) >= 2
          /\ paths_to_nodes[e][1] = lk_position.u
          /\ paths_to_nodes[f][1] = lk_position.v

\* C23: every list returned by get_paths_as_seq_indices contains only
\* integers in [0, N): every tree node on a chain from an NJOI down to an
\* escape leaf has a candidate id, so the planner never indexes its decision
\* matrix with a missing id.
C23_PathIndicesAreIds ==
    /\ Built =>
          \A path_indices \in adv_paths_to_nodes :
              \A k \in DOMAIN path_indices :
                  path_indices[k] \in 0..(Len(candidate_nodes) - 1)
    /\ ~(last.op = "plan_interception" /\ last.error = "TypeError")

\* the pairs of candidate nodes of which the first is above the second in
\* the escape tree
CandidatesInLine ==
    { p \in NodesWithId \X NodesWithId : p[1] \in Ancestors(tree_dict, p[2]) }

\* C24: in every returned plan no two assignment destinations are in
\* ancestor-descendant relation in the escape tree: any two candidate nodes
\* on a common root-to-leaf chain occur together in at least one path index
\* list, so the path-exclusivity constraint forbids assigning both.
C24_NoTwoOnOneLine ==
    PlanReturned =>
        /\ \A a, b \in Assignments :
              a.destination_node \notin Ancestors(tree_dict, b.destination_node)
        /\ last.cp_model =>
              \A p \in CandidatesInLine :
                  \E path_indices \in adv_paths_to_nodes :
                      /\ tree_dict[p[1]].id \in Range(path_indices)
                      /\ tree_dict[p[2]].id \in Range(path_indices)

\* a solved plan with two assignments on a tree where some candidate node
\* lies below another one that a vehicle was sent to
C24_Witness ==
    /\ PlanReturned
    /\ last.cp_model
    /\ Len(plan.assignments) = 2
    /\ \E p \in CandidatesInLine : \E a \in Assignments :
          a.destination_node = p[1] \/ a.destination_node = p[2]

\* plan_interception has returned from its first call on the escape model
FirstPlanReturned == PlanReturned /\ calls = 1

\* some assignment of the plan has its destination on the chain of the leaf
Intercepted(leaf) ==
    \E a \in Assignments : a.destination_node \in Range(PathFromRoot(tree_dict, leaf))

\* C25: after plan_interception returns on a freshly built escape model, an
\* escape leaf is COVERED iff some node on its root-to-leaf chain (the leaf
\* included) is the destination of an assignment of the plan, and UNCOVERED
\* otherwise; no leaf is MIXED.
C25_LeafCoverMatchesPlan ==
    FirstPlanReturned =>
        \A leaf \in Leaves(tree_dict, 0) :
            /\ tree_dict[leaf].cover = "COVERED" <=> Intercepted(leaf)
            /\ tree_dict[leaf].cover = "UNCOVERED" <=> ~Intercepted(leaf)

\* a first plan that covers one leaf from a node above it and leaves
\* another leaf uncovered
C25_Witness ==
    /\ FirstPlanReturned
    /\ \E leaf \in Leaves(tree_dict, 0) :
          /\ tree_dict[leaf].cover = "COVERED"
          /\ \A a \in Assignments : a.destination_node # leaf
    /\ \E leaf \in Leaves(tree_dict, 0) : tree_dict[leaf].cover = "UNCOVERED"

\* C26: for a request with time_elapsed = 0 and at least one vehicle,
\* plan_interception completes the pre-filter without raising: evaluating
\* d / time_elapsed does not fail and planning goes on to route the
\* vehicles.
C26_FilterRunsAtZeroElapsed ==
    (/\ last.op = "plan_interception"
     /\ time_elapsed = 0
     /\ DOMAIN vehicles # {})
    => /\ last.error # "ZeroDivisionError"
       /\ \A id \in DOMAIN vehicles : vehicles[id].status # "ASSIGNABLE"

\* the nodes of the subtree under the node the method is called on
SegSubtree == { n \in DOMAIN seg_tree.parent : n = seg_self \/ seg_self \in SegAncestors(seg_tree, n) }

SegLeaves == { n \in SegSubtree : \A c \in DOMAIN seg_tree.parent : seg_tree.parent[c] # n }

\* the parent -> child edges of the subtree
SegEdges == { << seg_tree.parent[c], c >> : c \in SegSubtree \ {seg_self} }

\* the places (k, i) where the edge e is a consecutive pair of a list of
\* node lists
Occurrences(lists, e) ==
    { ki \in { << k, i >> : k \in DOMAIN lists, i \in 1..MaxTreeNodes } :
        /\ ki[2] < Len(lists[ki[1]])
        /\ lists[ki[1]][ki[2]] = e[1]
        /\ lists[ki[1]][ki[2] + 1] = e[2] }

\* C28: for any tree, non_overlapping_segments returns downward
\* parent-to-child chains, exactly one per leaf and each ending at that
\* leaf, such that every parent -> child edge of the subtree occurs as a
\* consecutive pair in exactly one chain.
C28_ChainsPartitionEdges ==
    segments.op = "non_overlapping_segments" =>
        /\ \A k \in DOMAIN segments.paths :
              /\ segments.paths[k] # << >>
              /\ Range(segments.paths[k]) \subseteq SegSubtree
              /\ segments.paths[k][Len(segments.paths[k])] \in SegLeaves
              /\ \A i \in 1..(Len(segments.paths[k]) - 1) :
                    seg_tree.parent[segments.paths[k][i + 1]] = segments.paths[k][i]
        /\ Len(segments.paths) = Cardinality(SegLeaves)
        /\ \A leaf \in SegLeaves :
              Cardinality({ k \in DOMAIN segments.paths :
                              segments.paths[k][Len(segments.paths[k])] = leaf }) = 1
        /\ \A e \in SegEdges : Cardinality(Occurrences(segments.paths, e)) = 1

\* one chain is three nodes long and another starts at a branching node
\* below the node the method was called on
C28_Witness ==
    /\ segments.op = "non_overlapping_segments"
    /\ \E k \in DOMAIN segments.paths : Len(segments.paths[k]) >= 3
    /\ \E k \in DOMAIN segments.paths : segments.paths[k][1] # seg_self

\* the category of the edge that ends at child
CategoryOfEdgeTo(child) ==
    IF seg_tree.cover[child] # "COVERED" THEN "uncovered"
    ELSE IF \E a \in SegAncestors(seg_tree, child) : seg_tree.is_control_node[a]
    THEN "after_control"
    ELSE "before_control"

\* the segments of a category, as a set
SegmentsOf(cat) == Range(segments.categories[cat])

\* C27: categorize_segments places every parent -> child edge of the tree in
\* exactly one segment of exactly one category: "uncovered" if child.cover
\* is not COVERED, "after_control" if it is COVERED and a proper ancestor of
\* the child is a control node, "before_control" otherwise; two consecutive
\* segments cut from one path share exactly their boundary node.
C27_EdgesCategorizedOnce ==
    segments.op = "categorize_segments" =>
        /\ \A cat \in DOMAIN segments.categories :
              \A seg \in SegmentsOf(cat) :
                  /\ Len(seg) >= 2
                  /\ \A i \in 1..(Len(seg) - 1) :
                        /\ << seg[i], seg[i + 1] >> \in SegEdges
                        /\ CategoryOfEdgeTo(seg[i + 1]) = cat
        /\ \A e \in SegEdges :
              \A cat \in DOMAIN segments.categories :
                  Cardinality(Occurrences(segments.categories[cat], e))
                      = IF cat = CategoryOfEdgeTo(e[2]) THEN 1 ELSE 0
        /\ \A path \in Range(non_overlapping_segments(seg_tree, seg_self)) :
              \A i \in 2..(Len(path) - 1) :
                  CategoryOfEdgeTo(path[i]) # CategoryOfEdgeTo(path[i + 1]) =>
                      \E s1 \in SegmentsOf(CategoryOfEdgeTo(path[i])) :
                      \E s2 \in SegmentsOf(CategoryOfEdgeTo(path[i + 1])) :
                          /\ s1[Len(s1)] = path[i]
                          /\ s1[Len(s1) - 1] = path[i - 1]
                          /\ s2[1] = path[i]
                          /\ s2[2] = path[i + 1]
                          /\ Range(s1) \cap Range(s2) = { path[i] }

\* one path was cut into an uncovered, a before_control and an
\* after_control segment
C27_Witness ==
    /\ segments.op = "categorize_segments"
    /\ \E s1 \in SegmentsOf("uncovered") :
       \E s2 \in SegmentsOf("before_control") :
       \E s3 \in SegmentsOf("after_control") :
          /\ s1[Len(s1)] = s2[1]
          /\ s2[Len(s2)] = s3[1]
          /\ seg_tree.is_control_node[s3[1]]

\* the decision matrix with no vehicle assigned anywhere
AllZero(num_vehicles) == [v_i \in 0..(num_vehicles - 1) |-> {}]

\* C29: the constraint model built by plan_interception is always
\* satisfiable: the all-zero assignment satisfies constraints 1, 2 and 3
\* for any vehicles, candidate nodes and path index lists.
C29_AllZeroIsFeasible ==
    FilterRuns =>
        \A vs \in { FilteredVehicles(net, vehicles, time_elapsed) } :
        \A vids \in { FilteredVids(vehicles, time_elapsed) } :
            ModelPosted(vs, vids) =>
                \A times_v_n \in { get_time_matrix(vs, vids, candidate_osmids) } :
                    AllZero(Len(times_v_n))
                        \in Solutions(adv_times_to_nodes, times_v_n, time_margin,
                                      Len(times_v_n), Len(times_v_n[1]),
                                      adv_paths_to_nodes)

\* the solver has just ended without a solution on a model with two
\* vehicles and several candidate nodes, and a model can be posted again
C29_Witness ==
    /\ last.op = "plan_interception"
    /\ last.error = "Exception"
    /\ Len(assignable_vids) = 2
    /\ FilterRuns
    /\ Len(candidate_nodes) >= 2
    /\ adv_paths_to_nodes # {}
    /\ ModelPosted(FilteredVehicles(net, vehicles, time_elapsed),
                   FilteredVids(vehicles, time_elapsed))

\* C30: plan_interception does not fail when some candidate node is
\* unreachable from the position of a vehicle that passed the pre-filter:
\* building the vehicle x node time matrix succeeds, and such a pair is
\* simply never assigned.
C30_UnreachableNodeTolerated ==
    /\ ~(last.op = "plan_interception" /\ last.error = "KeyError")
    /\ FilterRuns =>
          \A vs \in { FilteredVehicles(net, vehicles, time_elapsed) } :
          \A vids \in { FilteredVids(vehicles, time_elapsed) } :
              ~TimeMatrixRaises(vs, vids, candidate_osmids)

====
